---------------------------- MODULE Spec2Model ----------------------------
(***************************************************************************)
(* A model of the GPS track reconstruction pipeline of this repository.    *)
(*                                                                         *)
(* The repository holds two implementations side by side: the monolith     *)
(* src/app.py and the refactored modules under src/services/.  Operators   *)
(* that model app.py carry the prefix app_; the others model services/.    *)
(*                                                                         *)
(* Conventions                                                             *)
(*  - Python lists are TLA+ sequences; indices kept in variables are the   *)
(*    0-based indices of the source (At, PySlice convert).                 *)
(*  - An optional value (None or a value) is <<>> or <<v>>.  A dict key    *)
(*    that is absent and a key bound to None are not told apart: every     *)
(*    reader in the source guards with `'k' in p` and then copies or       *)
(*    truth-tests the value.                                               *)
(*  - Coordinates are integers (grid units in the chunker, microdegrees    *)
(*    in the adapter); times are integer seconds.                          *)
(*  - A point carries a ghost field idx, the identity of the Python        *)
(*    object (its index in the list it was created in).                    *)
(***************************************************************************)
EXTENDS Integers, Sequences, FiniteSets, TLC

VARIABLES
    \* ---- chunk_track (one call) ----
    impl,            \* "app" | "services": which chunk_track is called
    points,          \* the track handed to chunk_track
    max_chunk_size,
    overlap,
    chunk_pc,        \* "idle" | "start" | "loop" | "done"
    chunk_path,      \* "" | "single" | "natural" | "fixed"
    start_idx,       \* the while loop's start_idx
    chunks,          \* the list being built / returned
    \* ---- process_chunk_with_valhalla (one call) ----
    chunk,           \* the chunk handed to the adapter
    res,             \* the outcome of requests.post
    adapter_pc,      \* "idle" | "call" | "responded" | "done"
    adapter_result,  \* what the adapter returned
    \* ---- process_track of app.py, from the chunking to the stitching ----
    processed_points,  \* the smoothed and interpolated track
    track_pc,          \* where process_track stands
    track_chunks,      \* chunks (app.py:464)
    chunk_i,           \* the loop index i of app.py:469
    sub_chunks,        \* sub_chunks (app.py:483)
    sub_i,             \* the position of the loop of app.py:485
    processed_chunks,  \* processed_chunks (app.py:467); each entry is tagged
                       \* with the chunk and sub-chunk it was matched from
    attempts,          \* history: the adapter calls made so far
    \* ---- one call of a function of the pipeline ----
    fn_pc,             \* "idle", "call", "returned" or "raised"
    fn_in,             \* the track (or list of chunks) passed
    fn_par,            \* the other parameters
    fn_out             \* what was returned

chunk_vars == <<points, max_chunk_size, overlap, chunk_pc, chunk_path,
                start_idx, chunks>>

adapter_vars == <<chunk, res, adapter_pc, adapter_result>>

track_vars == <<processed_points, track_pc, track_chunks, chunk_i, sub_chunks,
                sub_i, processed_chunks, attempts>>

fn_vars == <<fn_pc, fn_in, fn_par, fn_out>>

vars == <<impl, chunk_vars, adapter_vars, track_vars, fn_vars>>

\* what a step of chunk_track leaves alone, and what a step of the adapter does
outside_chunk_track == <<impl, adapter_vars, track_vars, fn_vars>>
outside_adapter == <<impl, chunk_vars, track_vars, fn_vars>>
outside_fn == <<chunk_vars, adapter_vars, track_vars>>

-----------------------------------------------------------------------------
(* Bounds of the model *)

\* longest track handed to chunk_track in SpecChunk
MaxLen == 9
\* largest overlap tried in SpecChunk
MaxOverlap == 3
\* cap on the number of chunks the slicing loop may build (the loop does not
\* end when overlap >= max_chunk_size)
MaxChunks == 8

-----------------------------------------------------------------------------
(* Python helpers *)

Min(a, b) == IF a < b THEN a ELSE b
Max(a, b) == IF a > b THEN a ELSE b

\* s[i] for a 0-based index i
At(s, i) == s[i + 1]

\* s[a:b] for integers a, b (negative indices count from the end, and both
\* are clamped to the list)
PySlice(s, a, b) ==
    LET n  == Len(s)
        lo == IF a < 0 THEN Max(a + n, 0) ELSE Min(a, n)
        hi == IF b < 0 THEN Max(b + n, 0) ELSE Min(b, n)
    IN  IF lo >= hi THEN <<>> ELSE SubSeq(s, lo + 1, hi)

None == <<>>
Some(v) == <<v>>
IsSome(o) == o # <<>>
Val(o) == o[1]

\* the elements of a set of integers in increasing order
RECURSIVE SortedSeq(_)
SortedSeq(S) ==
    IF S = {} THEN <<>>
    ELSE LET m == CHOOSE x \in S : \A y \in S : x <= y
         IN  <<m>> \o SortedSeq(S \ {m})

\* the sequences of ss joined in their order, half by half
RECURSIVE Concat(_)
Concat(ss) ==
    IF ss = <<>> THEN <<>>
    ELSE IF Len(ss) = 1 THEN ss[1]
    ELSE LET h == Len(ss) \div 2
         IN  Concat(SubSeq(ss, 1, h)) \o Concat(SubSeq(ss, h + 1, Len(ss)))

\* the elements of s at the indices 0, rate, 2 * rate, ...
SelectSeqByIndex(s, rate) ==
    [ k \in 1 .. ((Len(s) + rate - 1) \div rate) |-> At(s, (k - 1) * rate) ]

\* the identity of a point object created after the track was read
NewIdx == 0 - 1

Abs(x) == IF x < 0 THEN 0 - x ELSE x

\* the sum of f[k] for k in lo .. hi
RECURSIVE SumOver(_, _, _)
SumOver(f, lo, hi) ==
    IF lo > hi THEN 0
    ELSE IF lo = hi THEN f[lo]
    ELSE LET mid == (lo + hi) \div 2
         IN  SumOver(f, lo, mid) + SumOver(f, mid + 1, hi)

\* chunk_track is not running
ChunkIdle ==
    /\ points = <<>>
    /\ max_chunk_size = 0
    /\ overlap = 0
    /\ chunk_pc = "idle"
    /\ chunk_path = ""
    /\ start_idx = 0
    /\ chunks = <<>>

\* the adapter is not running
AdapterIdle ==
    /\ chunk = <<>>
    /\ res = <<>>
    /\ adapter_pc = "idle"
    /\ adapter_result = <<>>

\* no function is called on its own
FnIdle ==
    /\ fn_pc = "idle"
    /\ fn_in = <<>>
    /\ fn_par = <<>>
    /\ fn_out = <<>>

\* process_track is not running
TrackIdle ==
    /\ processed_points = <<>>
    /\ track_pc = "idle"
    /\ track_chunks = <<>>
    /\ chunk_i = 0
    /\ sub_chunks = <<>>
    /\ sub_i = 0
    /\ processed_chunks = <<>>
    /\ attempts = <<>>

-----------------------------------------------------------------------------
(* chunk_track: src/app.py (natural breaks, then fixed-size slicing) and   *)
(* src/services/track_chunks_processor.py (fixed-size slicing only)        *)

\* app.py:161-164: a pause of more than 60 s before point i (both times known)
PauseSeconds == 60

TimeGapBreak(pts, i) ==
    /\ IsSome(At(pts, i).time)
    /\ IsSome(At(pts, i - 1).time)
    /\ Val(At(pts, i).time) - Val(At(pts, i - 1).time) > PauseSeconds

\* the greatest common divisor of two naturals
RECURSIVE Gcd(_, _)
Gcd(a, b) == IF b = 0 THEN a ELSE Gcd(b, a % b)

\* The direction atan2(dlon, dlat) of a step, as the shortest integer vector
\* of that direction; atan2(0, 0) is 0, the direction of
\* (dlat, dlon) = (1, 0).
StepVec(p, q) ==
    LET x == q.lat - p.lat
        y == q.lon - p.lon
        g == Gcd(Abs(x), Abs(y))
    IN  IF x = 0 /\ y = 0 THEN <<1, 0>> ELSE <<x \div g, y \div g>>

\* app.py:167-183: the bearing changes by more than pi/4 across p1, p2, p3.
\* The angle between the two steps exceeds 45 degrees iff their dot product
\* is not positive or cos^2 < 1/2, i.e. 2*dot^2 < |v1|^2 * |v2|^2.
SharpTurn(p1, p2, p3) ==
    LET v1  == StepVec(p1, p2)
        v2  == StepVec(p2, p3)
        dot == v1[1] * v2[1] + v1[2] * v2[2]
        n1  == v1[1] * v1[1] + v1[2] * v1[2]
        n2  == v2[1] * v2[1] + v2[2] * v2[2]
    IN  dot <= 0 \/ 2 * dot * dot < n1 * n2

\* app.py:157-187: the candidate break indices (inner points only)
break_indices(pts) ==
    { i \in 1 .. Len(pts) - 2 :
        \/ TimeGapBreak(pts, i)
        \/ i > 1 /\ SharpTurn(At(pts, i - 2), At(pts, i - 1), At(pts, i)) }

\* app.py:195-197: walk the sorted candidates, keep one when it lies at
\* least min_chunk_size after the last kept one
RECURSIVE FilterBreaks(_, _, _)
FilterBreaks(fb, cands, min_chunk_size) ==
    LET ok == { idx \in cands : idx - fb[Len(fb)] >= min_chunk_size }
    IN  IF ok = {} THEN fb
        ELSE LET nxt == CHOOSE x \in ok : \A y \in ok : x <= y
             IN  FilterBreaks(Append(fb, nxt), { c \in cands : c > nxt },
                              min_chunk_size)

\* app.py:192-201
filtered_breaks(pts, mcs) ==
    LET min_chunk_size == mcs \div 10
        fb == FilterBreaks(<<0>>, break_indices(pts), min_chunk_size)
    IN  IF Len(pts) - 1 - fb[Len(fb)] >= min_chunk_size
        THEN Append(fb, Len(pts) - 1)
        ELSE fb

\* app.py:206-207: the end index of natural chunk i (exclusive, as a slice end)
NaturalEnd(pts, fb, i, ov) == Min(Len(pts), fb[i + 1] + ov \div 2)

\* app.py:204-208
natural_chunks(pts, mcs, ov) ==
    LET fb == filtered_breaks(pts, mcs)
    IN  [ i \in 1 .. Len(fb) - 1 |->
            PySlice(pts, Max(0, fb[i] - ov \div 2), NaturalEnd(pts, fb, i, ov)) ]

\* app.py:190, 211: the natural chunks are used
UseNatural(pts, mcs, ov) ==
    /\ break_indices(pts) # {}
    /\ LET nc == natural_chunks(pts, mcs, ov)
       IN  /\ Len(nc) >= 2
           /\ \A k \in 1 .. Len(nc) : Len(nc[k]) <= mcs

\* mutant: the window is one point too long
EndIdx_OneTooLong(start, n, mcs) == Min(start + mcs + 1, n)

\* track_chunks_processor.py:19 / app.py:222
EndIdx(start, n, mcs) == Min(start + mcs, n)

\* track_chunks_processor.py:26 / app.py:229
NextStart(end_idx, n, ov) == IF end_idx < n THEN end_idx - ov ELSE n

\* variant: an empty track is not returned as one chunk
FitsInOneChunk_NotEmpty(n, mcs) == 0 < n /\ n <= mcs

\* track_chunks_processor.py:11 / app.py:146: if len(points) <= max_chunk_size
FitsInOneChunk(n, mcs) == n <= mcs

\* chunk_track is entered: app.py:146-217, track_chunks_processor.py:11-15
ChunkTrackEnter ==
    /\ chunk_pc = "start"
    /\ IF FitsInOneChunk(Len(points), max_chunk_size)
       THEN /\ chunks' = <<points>>
            /\ chunk_path' = "single"
            /\ chunk_pc' = "done"
       ELSE IF impl = "app" /\ UseNatural(points, max_chunk_size, overlap)
       THEN /\ chunks' = natural_chunks(points, max_chunk_size, overlap)
            /\ chunk_path' = "natural"
            /\ chunk_pc' = "done"
       ELSE /\ chunks' = <<>>
            /\ chunk_path' = "fixed"
            /\ chunk_pc' = "loop"
    /\ start_idx' = 0
    /\ UNCHANGED <<points, max_chunk_size, overlap, outside_chunk_track>>

\* one iteration of the while loop: track_chunks_processor.py:17-26,
\* app.py:220-229
ChunkLoopStep ==
    /\ chunk_pc = "loop"
    /\ start_idx < Len(points)
    /\ Len(chunks) < MaxChunks
    /\ LET end_idx == EndIdx(start_idx, Len(points), max_chunk_size)
       IN  /\ chunks' = Append(chunks, PySlice(points, start_idx, end_idx))
           /\ start_idx' = NextStart(end_idx, Len(points), overlap)
    /\ UNCHANGED <<points, max_chunk_size, overlap, chunk_pc, chunk_path,
                   outside_chunk_track>>

\* the loop condition fails and the chunks are returned:
\* track_chunks_processor.py:17, 28 / app.py:220, 231
ChunkLoopExit ==
    /\ chunk_pc = "loop"
    /\ ~(start_idx < Len(points))
    /\ chunk_pc' = "done"
    /\ UNCHANGED <<points, max_chunk_size, overlap, chunk_path,
                   start_idx, chunks, outside_chunk_track>>

\* ---- the inputs of SpecChunk ----

\* the chunk sizes tried (min_chunk_size = max_chunk_size // 10 is 0, 0, 2)
ChunkSizes == {2, 3, 20}

\* a track of n points heading north one grid unit per point; lons[i] is the
\* point's longitude (a zigzag gives sharp turns); tm = 0: no times,
\* tm = 1: 1 Hz times, tm = 2: 1 Hz times with a pause before the middle point
MkTrack(n, lons, tm) ==
    [ i \in 1 .. n |->
        [ idx  |-> i - 1,
          lat  |-> i - 1,
          lon  |-> lons[i],
          time |-> IF tm = 0 THEN None
                   ELSE IF tm = 2 /\ i - 1 >= n \div 2
                        THEN Some(i - 1 + PauseSeconds + 1)
                        ELSE Some(i - 1),
          speed |-> None ] ]

\* short tracks: every zigzag of up to MaxLen points
ShortTracks ==
    UNION { { MkTrack(n, lons, tm) : lons \in [1 .. n -> {0, 1}], tm \in 0 .. 2 }
            : n \in 0 .. MaxLen }

\* the lengths of the long tracks (longer than the largest chunk size)
LongLens == {21, 22}

\* long tracks: straight, with one-point sideways spikes at up to two places
\* (a spike at index j is a sharp turn at index j + 1)
LongTracks ==
    UNION { { MkTrack(n, [i \in 1 .. n |-> IF i - 1 \in {j1, j2} THEN 1 ELSE 0], tm)
              : j1 \in 0 .. n - 1, j2 \in 0 .. n - 1, tm \in 0 .. 2 }
            : n \in LongLens }

ChunkInit ==
    /\ AdapterIdle
    /\ TrackIdle
    /\ FnIdle
    /\ impl \in {"app", "services"}
    /\ points \in ShortTracks \cup LongTracks
    /\ max_chunk_size \in ChunkSizes
    /\ overlap \in 0 .. MaxOverlap
    /\ chunk_pc = "start"
    /\ chunk_path = ""
    /\ start_idx = 0
    /\ chunks = <<>>

ChunkNext == ChunkTrackEnter \/ ChunkLoopStep \/ ChunkLoopExit

SpecChunk == ChunkInit /\ [][ChunkNext]_vars
-----------------------------------------------------------------------------
(* Properties of chunk_track, over SpecChunk.         *)

ChunkReturned == chunk_pc = "done"

\* the original indices of the points of all chunks
ChunkIdxSet(cs) ==
    UNION { { cs[k][j].idx : j \in 1 .. Len(cs[k]) } : k \in 1 .. Len(cs) }

\* chunk c is a contiguous index range of the track pts
IsContiguousRange(pts, c) ==
    /\ c # <<>>
    /\ \A j \in 1 .. Len(c) : c[j] = At(pts, c[j].idx)
    /\ \A j \in 1 .. Len(c) - 1 : c[j + 1].idx = c[j].idx + 1

\* chunk c without the points it shares with chunk prev
DropShared(prev, c) ==
    LET shared == { prev[j].idx : j \in 1 .. Len(prev) }
        Keep(p) == p.idx \notin shared
    IN  SelectSeq(c, Keep)

\* the first chunk, then every later chunk without what it shares with its
\* predecessor, concatenated
Reassemble(cs) ==
    Concat([ k \in 1 .. Len(cs) |->
               IF k = 1 THEN cs[1] ELSE DropShared(cs[k - 1], cs[k]) ])

ChunksReconstruct(pts, cs) ==
    /\ \A k \in 1 .. Len(cs) : IsContiguousRange(pts, cs[k])
    /\ \A k \in 1 .. Len(cs) - 1 : cs[k][1].idx <= cs[k + 1][1].idx
    /\ ChunkIdxSet(cs) = 0 .. Len(pts) - 1
    /\ Reassemble(cs) = pts

\* C1 (as claimed): for every track longer than max_chunk_size and every
\* overlap >= 0, the returned chunks are contiguous index ranges in
\* increasing start order that cover every index, and dropping from each
\* chunk the points shared with its predecessor and concatenating gives back
\* the original point sequence.
C1_ChunksReconstructTrack ==
    (ChunkReturned /\ Len(points) > max_chunk_size)
        => ChunksReconstruct(points, chunks)

\* The fixed-size path does reconstruct the track whenever it returns.
FixedPathReconstructsTrack ==
    (ChunkReturned /\ chunk_path = "fixed") => ChunksReconstruct(points, chunks)

\* The natural-break path loses exactly the tail after its last slice end.
NaturalPathLosesOnlyTail ==
    (ChunkReturned /\ chunk_path = "natural")
        => LET last == chunks[Len(chunks)]
               endx == last[Len(last)].idx + 1
           IN  /\ ChunksReconstruct(SubSeq(points, 1, endx), chunks)
               /\ endx = NaturalEnd(points, filtered_breaks(points, max_chunk_size),
                                    Len(chunks), overlap)

\* C2: every chunk chunk_track builds or returns has at most max_chunk_size
\* points, on the natural-break path (extension by overlap/2 included) and
\* on the fixed-size path.
C2_ChunkSizeBounded ==
    \A k \in 1 .. Len(chunks) : Len(chunks[k]) <= max_chunk_size

\* a natural-break result whose chunks were extended by overlap/2 and one of
\* which is exactly max_chunk_size long
C2_Witness ==
    /\ ChunkReturned
    /\ chunk_path = "natural"
    /\ overlap \div 2 >= 1
    /\ \E k \in 1 .. Len(chunks) : Len(chunks[k]) = max_chunk_size

\* a fixed-size result of several chunks, the last one shorter
FixedPathReached ==
    /\ ChunkReturned
    /\ chunk_path = "fixed"
    /\ Len(chunks) >= 3
    /\ Len(chunks[Len(chunks)]) < max_chunk_size
-----------------------------------------------------------------------------
(* The map-match adapter: process_chunk_with_valhalla of                   *)
(* src/services/valhalla_adapter.py and of src/app.py                      *)
(*                                                                         *)
(* A response is a record                                                  *)
(*   raises        requests.post raised (timeout, transport failure)       *)
(*   status        res.status_code                                         *)
(*   parses        res.json() returns (FALSE: it raises ValueError)        *)
(*   is_object     the parsed JSON value is an object                      *)
(*   warnings, error_message, error   the key is in the body               *)
(*   matched_points, shape, edges     None, or Some(value of the key)      *)
(* An encoded polyline is the sequence of its characters' code points.     *)
(* A result is [none |-> TRUE] for None or a list in pts.                  *)

NoneResult == [none |-> TRUE, pts |-> <<>>]
ListResult(pts) == [none |-> FALSE, pts |-> pts]

\* valhalla_adapter.py:21-27: read one varint from index on.  ok = FALSE is
\* the IndexError of reading past the end of the string.
RECURSIVE ReadVarint(_, _, _, _)
ReadVarint(encoded, index, result, shift) ==
    IF index >= Len(encoded)
    THEN [ok |-> FALSE, result |-> 0, index |-> index]
    ELSE LET b == At(encoded, index) - 63 - 1
             r == result + b * 2 ^ shift
         IN  IF b < 31
             THEN [ok |-> TRUE, result |-> r, index |-> index + 1]
             ELSE ReadVarint(encoded, index + 1, r, shift + 5)

\* valhalla_adapter.py:28: ~(result >> 1) if (result & 1) else (result >> 1)
ZigZag(result) ==
    IF result % 2 = 1 THEN 0 - (result \div 2) - 1 ELSE result \div 2

\* valhalla_adapter.py:16-40: the loop of decode_polyline from index on
RECURSIVE DecodeFrom(_, _, _, _, _)
DecodeFrom(encoded, index, lat, lon, coords) ==
    IF ~(index < Len(encoded))
    THEN [raised |-> FALSE, coords |-> coords]
    ELSE LET a == ReadVarint(encoded, index, 1, 0)
         IN  IF ~a.ok THEN [raised |-> TRUE, coords |-> <<>>]
             ELSE LET b == ReadVarint(encoded, a.index, 1, 0)
                  IN  IF ~b.ok THEN [raised |-> TRUE, coords |-> <<>>]
                      ELSE LET la == lat + ZigZag(a.result)
                               lo == lon + ZigZag(b.result)
                           IN  DecodeFrom(encoded, b.index, la, lo,
                                          Append(coords, [lat |-> la, lon |-> lo]))

\* valhalla_adapter.py:10-41 / app.py:234-264.  Coordinates stay in the
\* polyline's integer units (the source multiplies by 1e-6); each is a
\* (lat, lon) pair.
decode_polyline(encoded) == DecodeFrom(encoded, 0, 0, 0, <<>>)

\* the dict {'lat': .., 'lon': ..} of valhalla_adapter.py:40
ShapeDict(c) ==
    [idx |-> NewIdx, lat |-> c.lat, lon |-> c.lon, time |-> None, speed |-> None]

\* valhalla_adapter.py:139-151: the coordinates of the matched points that
\* carry lat and lon; matched point i takes time and speed of chunk[i]
matched_coords(ch, matched_points) ==
    LET HasLatLon(i) == IsSome(matched_points[i].lat) /\ IsSome(matched_points[i].lon)
        new_point(i) ==
            [idx   |-> NewIdx,
             lat   |-> Val(matched_points[i].lat),
             lon   |-> Val(matched_points[i].lon),
             time  |-> IF i - 1 < Len(ch) THEN ch[i].time ELSE None,
             speed |-> IF i - 1 < Len(ch) THEN ch[i].speed ELSE None]
        kept == SortedSeq({ i \in 1 .. Len(matched_points) : HasLatLon(i) })
    IN  [ k \in 1 .. Len(kept) |-> new_point(kept[k]) ]

\* app.py:329-332: the (lat, lon) tuples of the matched points
app_matched_coords(matched_points) ==
    LET HasLatLon(i) == IsSome(matched_points[i].lat) /\ IsSome(matched_points[i].lon)
        kept == SortedSeq({ i \in 1 .. Len(matched_points) : HasLatLon(i) })
    IN  [ k \in 1 .. Len(kept) |->
            [lat |-> Val(matched_points[kept[k]].lat),
             lon |-> Val(matched_points[kept[k]].lon)] ]

\* valhalla_adapter.py:153 / app.py:334:
\* matched_coords and len(matched_coords) > len(chunk) * 0.3
\* (for these lengths the float product compares as 3 * len / 10 exactly)
EnoughMatched(mc, ch) == mc # <<>> /\ 10 * Len(mc) > 3 * Len(ch)

\* valhalla_adapter.py:163, 182 / app.py:344, 361: more than 10 points
MinShapePoints == 10

\* variant: 10 points are enough
EnoughShape_TenSuffice(pts) == Len(pts) >= MinShapePoints

EnoughShape(pts) == Len(pts) > MinShapePoints

\* valhalla_adapter.py:174-180 / app.py:353-359: the decoded shapes of the
\* edges that have one, concatenated in edge order
RECURSIVE EdgePoints(_)
EdgePoints(edges) ==
    IF edges = <<>> THEN [raised |-> FALSE, coords |-> <<>>]
    ELSE IF ~IsSome(Head(edges).shape) THEN EdgePoints(Tail(edges))
    ELSE LET d    == decode_polyline(Val(Head(edges).shape))
             rest == EdgePoints(Tail(edges))
         IN  IF d.raised \/ rest.raised THEN [raised |-> TRUE, coords |-> <<>>]
             ELSE [raised |-> FALSE, coords |-> d.coords \o rest.coords]

MapSeq(Op(_), sq) == [ k \in 1 .. Len(sq) |-> Op(sq[k]) ]

\* valhalla_adapter.py:168-188: the edges, else the original chunk
FromEdgesOrChunk(ch, data) ==
    IF IsSome(data.edges)
    THEN LET e == EdgePoints(Val(data.edges))
         IN  IF e.raised THEN NoneResult
             ELSE IF e.coords # <<>> /\ EnoughShape(e.coords)
                  THEN ListResult(MapSeq(ShapeDict, e.coords))
                  ELSE ListResult(ch)
    ELSE ListResult(ch)

\* valhalla_adapter.py:157-166, then the edges
FromShapeOn(ch, data) ==
    IF IsSome(data.shape)
    THEN LET d == decode_polyline(Val(data.shape))
         IN  IF d.raised THEN NoneResult
             ELSE IF EnoughShape(d.coords)
                  THEN ListResult(MapSeq(ShapeDict, d.coords))
                  ELSE FromEdgesOrChunk(ch, data)
    ELSE FromEdgesOrChunk(ch, data)

\* valhalla_adapter.py:132-188: the extraction from a parsed body
Extract(ch, data) ==
    IF IsSome(data.matched_points)
       /\ EnoughMatched(matched_coords(ch, Val(data.matched_points)), ch)
    THEN ListResult(matched_coords(ch, Val(data.matched_points)))
    ELSE FromShapeOn(ch, data)

\* valhalla_adapter.py:106: the statuses answered with the original chunk
UnavailableStatuses == {502, 503, 504}

\* variant: every status other than 200 is answered with the original chunk
OnBadStatus_AlwaysChunk(ch, status) == ListResult(ch)

\* valhalla_adapter.py:103-109: a status other than 200
OnBadStatus(ch, status) ==
    IF status \in UnavailableStatuses THEN ListResult(ch) ELSE NoneResult

\* variant: an unparseable body is a failed match
OnUnparseable_Null(ch) == NoneResult

\* valhalla_adapter.py:112-117: res.json() raised ValueError
OnUnparseable(ch) == ListResult(ch)

\* variant: a body with error_message is a failed match
OnErrorMessage_Null(ch, data) ==
    IF data.error_message THEN NoneResult ELSE Extract(ch, data)

\* valhalla_adapter.py:126-130: the body has the key error_message
OnErrorMessage(ch, data) ==
    IF data.error_message THEN ListResult(ch) ELSE Extract(ch, data)

\* valhalla_adapter.py:92-193
process_chunk_with_valhalla(ch, r) ==
    IF r.raises THEN NoneResult                       \* line 190: except
    ELSE IF r.status # 200 THEN OnBadStatus(ch, r.status)
    ELSE IF ~r.parses THEN OnUnparseable(ch)
    ELSE IF ~r.is_object THEN NoneResult              \* line 119: data.keys()
    ELSE OnErrorMessage(ch, r)

\* app.py:367: sample_rate = max(1, len(chunk) // 500)
SampleTarget == 500

\* app.py:365-368: the (lat, lon) of every sample_rate-th point of the chunk
\* (the k-th index i with i % sample_rate = 0 is (k - 1) * sample_rate)
app_sampled_chunk(ch) ==
    LET sample_rate == Max(1, Len(ch) \div SampleTarget)
        count == (Len(ch) + sample_rate - 1) \div sample_rate
    IN  [ k \in 1 .. count |->
            [lat |-> At(ch, (k - 1) * sample_rate).lat,
             lon |-> At(ch, (k - 1) * sample_rate).lon] ]

\* app.py:347-368
app_FromEdgesOrChunk(ch, data) ==
    IF IsSome(data.edges)
    THEN LET e == EdgePoints(Val(data.edges))
         IN  IF e.raised THEN NoneResult
             ELSE IF e.coords # <<>> /\ EnoughShape(e.coords)
                  THEN ListResult(e.coords)
                  ELSE ListResult(app_sampled_chunk(ch))
    ELSE ListResult(app_sampled_chunk(ch))

\* app.py:338-345, then the edges
app_FromShapeOn(ch, data) ==
    IF IsSome(data.shape)
    THEN LET d == decode_polyline(Val(data.shape))
         IN  IF d.raised THEN NoneResult
             ELSE IF EnoughShape(d.coords) THEN ListResult(d.coords)
                  ELSE app_FromEdgesOrChunk(ch, data)
    ELSE app_FromEdgesOrChunk(ch, data)

\* app.py:323-368
app_Extract(ch, data) ==
    IF IsSome(data.matched_points)
       /\ EnoughMatched(app_matched_coords(Val(data.matched_points)), ch)
    THEN ListResult(app_matched_coords(Val(data.matched_points)))
    ELSE app_FromShapeOn(ch, data)

\* app.py:310-373: every status but 200 is a failure, and so is the
\* ValueError of res.json(), caught by the outer except
app_process_chunk_with_valhalla(ch, r) ==
    IF r.raises THEN NoneResult
    ELSE IF r.status # 200 THEN NoneResult
    ELSE IF ~r.parses THEN NoneResult
    ELSE IF ~r.is_object THEN NoneResult
    ELSE app_Extract(ch, r)

\* the adapter of the implementation im
AdapterOf(im, ch, r) ==
    IF im = "app" THEN app_process_chunk_with_valhalla(ch, r)
    ELSE process_chunk_with_valhalla(ch, r)
\* ---- one call of the adapter as steps ----

\* the body of a response that has none of the keys
EmptyBody ==
    [warnings |-> FALSE, error_message |-> FALSE, error |-> FALSE,
     matched_points |-> None, shape |-> None, edges |-> None]

MkResponse(raises, status, parses, is_object, body) ==
    [raises |-> raises, status |-> status, parses |-> parses,
     is_object |-> is_object,
     warnings |-> body.warnings, error_message |-> body.error_message,
     error |-> body.error, matched_points |-> body.matched_points,
     shape |-> body.shape, edges |-> body.edges]

\* requests.post raised: a timeout after the fixed limit, or a transport failure
RaisedResponse == MkResponse(TRUE, 0, FALSE, FALSE, EmptyBody)

\* valhalla_adapter.py:101 / app.py:313: requests.post raises
AdapterPostRaises ==
    /\ adapter_pc = "call"
    /\ res' = RaisedResponse
    /\ adapter_pc' = "responded"
    /\ UNCHANGED <<chunk, adapter_result, outside_adapter>>

\* valhalla_adapter.py:101 / app.py:313: requests.post returns one of the
\* responses of S
AdapterPostReturns(S) ==
    /\ adapter_pc = "call"
    /\ res' \in S
    /\ adapter_pc' = "responded"
    /\ UNCHANGED <<chunk, adapter_result, outside_adapter>>

\* valhalla_adapter.py:103-193 / app.py:315-373: the response is handled
\* and the adapter returns
AdapterReturn ==
    /\ adapter_pc = "responded"
    /\ adapter_result' = AdapterOf(impl, chunk, res)
    /\ adapter_pc' = "done"
    /\ UNCHANGED <<chunk, res, outside_adapter>>

\* ---- the inputs of SpecAdapter ----

\* longest chunk handed to the adapter in SpecAdapter
MaxChunkLen == 4
\* most matched points in a response of SpecAdapter
MaxMatched == 3

\* a chunk of n points; mode 0: no time or speed, 1: all have both,
\* 2: points at even indices have a time, none has a speed
MkChunk(n, mode) ==
    [ i \in 1 .. n |->
        [ idx   |-> i - 1,
          lat   |-> 100 + i,
          lon   |-> 200 + i,
          time  |-> IF mode = 1 \/ (mode = 2 /\ i % 2 = 1) THEN Some(i) ELSE None,
          speed |-> IF mode = 1 THEN Some(30 + i) ELSE None ] ]

\* the shortest chunk that app.py samples at a rate above 1
LongChunk == MkChunk(2 * SampleTarget, 2)

AdapterChunks ==
    { MkChunk(n, mode) : n \in 0 .. MaxChunkLen, mode \in 0 .. 2 } \cup {LongChunk}

\* m matched points; the one at position missing (if any) has no lat
MkMatched(m, missing) ==
    [ i \in 1 .. m |->
        [ lat |-> IF i = missing THEN None ELSE Some(300 + i),
          lon |-> Some(400 + i) ] ]

MatchedLists ==
    UNION { { MkMatched(m, missing) : missing \in 0 .. m } : m \in 0 .. MaxMatched }

\* an encoded polyline of k points, each one unit north-east of the last
\* ("A" is the one-character varint of +1)
Poly(k) == [ i \in 1 .. 2 * k |-> 65 ]

\* 11 points; the first latitude is the two-character varint of 50 ("cB"),
\* the first longitude the varint of -1 ("@")
PolyTwoGroups == <<99, 66, 64>> \o Poly(10)

\* a polyline cut inside a varint: decode_polyline raises IndexError
PolyTruncated == <<65, 99>>

PolyStrings == { <<>>, Poly(2), Poly(10), Poly(11), PolyTwoGroups, PolyTruncated }

EdgeShapes == { None, Some(Poly(2)), Some(Poly(6)), Some(Poly(11)), Some(PolyTruncated) }

EdgeLists ==
    {<<>>} \cup { <<[shape |-> a]>> : a \in EdgeShapes }
           \cup { <<[shape |-> a], [shape |-> b]>> : a \in EdgeShapes, b \in EdgeShapes }

Opt(S) == {None} \cup { Some(x) : x \in S }

Bodies ==
    [ warnings : BOOLEAN, error_message : BOOLEAN, error : BOOLEAN,
      matched_points : Opt(MatchedLists), shape : Opt(PolyStrings),
      edges : Opt(EdgeLists) ]

\* the statuses tried
Statuses == {200, 201, 301, 404, 500, 502, 503, 504}

HttpResponses ==
    { MkResponse(FALSE, st, TRUE, TRUE, EmptyBody) : st \in Statuses \ {200} }
    \cup { MkResponse(FALSE, 200, FALSE, FALSE, EmptyBody),
           MkResponse(FALSE, 200, TRUE, FALSE, EmptyBody) }
    \cup { MkResponse(FALSE, 200, TRUE, TRUE, b) : b \in Bodies }

\* the long chunk is tried with the bodies that have no matched points
\* and no edges
ResponsesFor(ch) ==
    IF Len(ch) <= MaxChunkLen THEN HttpResponses
    ELSE { r \in HttpResponses : r.matched_points = None /\ r.edges = None }

AdapterInit ==
    /\ ChunkIdle
    /\ TrackIdle
    /\ FnIdle
    /\ impl \in {"app", "services"}
    /\ chunk \in AdapterChunks
    /\ res = <<>>
    /\ adapter_pc = "call"
    /\ adapter_result = <<>>

AdapterPost == AdapterPostReturns(ResponsesFor(chunk))

AdapterNext == AdapterPostRaises \/ AdapterPost \/ AdapterReturn

SpecAdapter == AdapterInit /\ [][AdapterNext]_vars

-----------------------------------------------------------------------------
(* process_track of src/app.py, lines 447-491: the chunking of the          *)
(* processed points, the map matching of each chunk with the retry on       *)
(* sub-chunks, and the hand-over to connect_processed_chunks.  The loop of  *)
(* src/services/track_processor.py:116-146 is the same code; there it is    *)
(* never reached, because process_track of track_processor.py calls         *)
(* gc.collect() at line 75 and gc is not imported: the NameError is caught  *)
(* at line 177 and the raw track is returned.                               *)
(*                                                                          *)
(* chunk_track and the adapter are the actions above, called by setting     *)
(* their arguments and their position.                                      *)

\* app.py:451-459: the chunk size and overlap for num_points points
TrackChunkSize(num_points) ==
    IF num_points < 3000 THEN num_points
    ELSE IF num_points < 10000 THEN 3000
    ELSE 5000

TrackOverlap(num_points) ==
    IF num_points < 3000 THEN 0
    ELSE IF num_points < 10000 THEN Max(500, 3000 \div 5)
    ELSE Max(800, 5000 \div 5)

\* app.py:473, 486: len(matched_coords) >= 5
MinMatchedCoords == 5

\* variant: every result but null is a success
Succeeded_NotNull(result) == ~result.none

\* app.py:473, 486: matched_coords and len(matched_coords) >= 5
Succeeded(result) ==
    ~result.none /\ result.pts # <<>> /\ Len(result.pts) >= MinMatchedCoords

\* variant: every failed chunk of two or more points is retried
ShouldRetry_WhateverLength(ch) == Len(ch) >= 2

\* app.py:480: if len(chunk) > 1000
ShouldRetry(ch) == Len(ch) > 1000

\* app.py:481-482
sub_chunk_size(ch) == Min(1000, Len(ch) \div 2)
\* variant: the sub-chunks overlap by their whole size
sub_overlap_WholeSize(ch) == sub_chunk_size(ch)

sub_overlap(ch) == sub_chunk_size(ch) \div 5

\* variant: the result is put in front of the list
AppendResult_InFront(pc, from, result) ==
    <<[from |-> from, pts |-> result.pts]>> \o pc

\* app.py:475, 488: processed_chunks.append(matched_coords); from names the
\* chunk (and sub-chunk, 0 for none) that was matched
AppendResult(pc, from, result) ==
    Append(pc, [from |-> from, pts |-> result.pts])

\* the record of one call of the adapter
Attempt(from, ch, result) ==
    [from |-> from, len |-> Len(ch), none |-> result.none, n |-> Len(result.pts)]

\* chunk_track(pts, size, ov) is called
CallChunkTrack(pts, size, ov) ==
    /\ points' = pts
    /\ max_chunk_size' = size
    /\ overlap' = ov
    /\ chunk_pc' = "start"
    /\ chunk_path' = ""
    /\ start_idx' = 0
    /\ chunks' = <<>>

\* process_chunk_with_valhalla(ch) is called
CallAdapter(ch) ==
    /\ chunk' = ch
    /\ res' = <<>>
    /\ adapter_pc' = "call"
    /\ adapter_result' = <<>>

\* app.py:447-464: chunks = chunk_track(processed_points, max_chunk_size, overlap)
TrackSplit ==
    /\ track_pc = "split"
    /\ CallChunkTrack(processed_points,
                      TrackChunkSize(Len(processed_points)),
                      TrackOverlap(Len(processed_points)))
    /\ track_pc' = "wait_chunks"
    /\ UNCHANGED <<fn_vars, impl, adapter_vars, processed_points, track_chunks, chunk_i,
                   sub_chunks, sub_i, processed_chunks, attempts>>

\* app.py:464-467: chunk_track has returned; processed_chunks = []
TrackChunksReady ==
    /\ track_pc = "wait_chunks"
    /\ chunk_pc = "done"
    /\ track_chunks' = chunks
    /\ chunk_i' = 0
    /\ processed_chunks' = <<>>
    /\ track_pc' = "loop"
    /\ UNCHANGED <<fn_vars, impl, chunk_vars, adapter_vars, processed_points,
                   sub_chunks, sub_i, attempts>>

\* app.py:469-471: matched_coords = process_chunk_with_valhalla(chunk)
TrackCall ==
    /\ track_pc = "loop"
    /\ chunk_i < Len(track_chunks)
    /\ CallAdapter(At(track_chunks, chunk_i))
    /\ track_pc' = "wait_match"
    /\ UNCHANGED <<fn_vars, impl, chunk_vars, processed_points, track_chunks, chunk_i,
                   sub_chunks, sub_i, processed_chunks, attempts>>

\* app.py:473-483: the result of the chunk is appended, or the chunk is
\* split for the retry, or it is given up
TrackMatched ==
    /\ track_pc = "wait_match"
    /\ adapter_pc = "done"
    /\ attempts' = Append(attempts, Attempt(<<chunk_i, 0>>, chunk, adapter_result))
    /\ IF Succeeded(adapter_result)
       THEN /\ processed_chunks' =
                   AppendResult(processed_chunks, <<chunk_i, 0>>, adapter_result)
            /\ chunk_i' = chunk_i + 1
            /\ track_pc' = "loop"
            /\ UNCHANGED chunk_vars
       ELSE IF ShouldRetry(chunk)
       THEN /\ CallChunkTrack(chunk, sub_chunk_size(chunk), sub_overlap(chunk))
            /\ track_pc' = "wait_sub_chunks"
            /\ UNCHANGED <<processed_chunks, chunk_i>>
       ELSE /\ chunk_i' = chunk_i + 1
            /\ track_pc' = "loop"
            /\ UNCHANGED <<processed_chunks, chunk_vars>>
    /\ UNCHANGED <<fn_vars, impl, adapter_vars, processed_points, track_chunks,
                   sub_chunks, sub_i>>

\* app.py:483: sub_chunks = chunk_track(chunk, sub_chunk_size, sub_overlap)
\* has returned
TrackSubChunksReady ==
    /\ track_pc = "wait_sub_chunks"
    /\ chunk_pc = "done"
    /\ sub_chunks' = chunks
    /\ sub_i' = 0
    /\ track_pc' = "sub_loop"
    /\ UNCHANGED <<fn_vars, impl, chunk_vars, adapter_vars, processed_points,
                   track_chunks, chunk_i, processed_chunks, attempts>>

\* app.py:485-486: sub_matched = process_chunk_with_valhalla(sub_chunk)
TrackSubCall ==
    /\ track_pc = "sub_loop"
    /\ sub_i < Len(sub_chunks)
    /\ CallAdapter(At(sub_chunks, sub_i))
    /\ track_pc' = "wait_sub_match"
    /\ UNCHANGED <<fn_vars, impl, chunk_vars, processed_points, track_chunks, chunk_i,
                   sub_chunks, sub_i, processed_chunks, attempts>>

\* app.py:487-488: the result of the sub-chunk is appended or left out
TrackSubMatched ==
    /\ track_pc = "wait_sub_match"
    /\ adapter_pc = "done"
    /\ attempts' =
           Append(attempts, Attempt(<<chunk_i, sub_i + 1>>, chunk, adapter_result))
    /\ processed_chunks' =
           IF Succeeded(adapter_result)
           THEN AppendResult(processed_chunks, <<chunk_i, sub_i + 1>>, adapter_result)
           ELSE processed_chunks
    /\ sub_i' = sub_i + 1
    /\ track_pc' = "sub_loop"
    /\ UNCHANGED <<fn_vars, impl, chunk_vars, adapter_vars, processed_points,
                   track_chunks, chunk_i, sub_chunks>>

\* app.py:485, 469: the sub-chunks are exhausted, on to the next chunk
TrackSubDone ==
    /\ track_pc = "sub_loop"
    /\ ~(sub_i < Len(sub_chunks))
    /\ chunk_i' = chunk_i + 1
    /\ track_pc' = "loop"
    /\ UNCHANGED <<fn_vars, impl, chunk_vars, adapter_vars, processed_points,
                   track_chunks, sub_chunks, sub_i, processed_chunks, attempts>>

\* app.py:491: the chunks are exhausted;
\* connect_processed_chunks(processed_chunks) is called
TrackConnect ==
    /\ track_pc = "loop"
    /\ ~(chunk_i < Len(track_chunks))
    /\ track_pc' = "connect"
    /\ UNCHANGED <<fn_vars, impl, chunk_vars, adapter_vars, processed_points,
                   track_chunks, chunk_i, sub_chunks, sub_i, processed_chunks,
                   attempts>>

\* ---- the inputs of SpecTrack ----

\* most points of a short raw track
MaxRaw == 6

\* the raw lengths that give one chunk to retry (1001 and 3000 processed
\* points) and two chunks, the first to retry (3001 processed points)
LongRaw == {1000, 2999, 3000}

\* what smoothing and interpolation (app.py:438-441) make of a raw track of n
\* points without times, 10 units apart on a line heading north:
\* interpolate_track starts its list with points[0] and then appends the
\* end point of every segment, so the first point is there twice
ProcessedTrack(n) ==
    [ k \in 1 .. n + 1 |->
        LET j == Max(k - 2, 0)
        IN  [idx |-> j, lat |-> 10 * j, lon |-> 0, time |-> None, speed |-> None] ]

ProcessedTracks == { ProcessedTrack(n) : n \in (1 .. MaxRaw) \cup LongRaw }

\* the answers of the service to a chunk: an unavailable service, an empty
\* body, a shape of 11 points, 4 matched points (short chunks only: more
\* than 30% of them), 5 matched points
TrackResponses(ch) ==
    LET body(mp, sh) == [EmptyBody EXCEPT !.matched_points = mp, !.shape = sh]
    IN  { MkResponse(FALSE, 503, TRUE, TRUE, EmptyBody),
          MkResponse(FALSE, 200, TRUE, TRUE, EmptyBody) }
        \cup IF Len(ch) > MaxRaw + 1 THEN {}
             ELSE { MkResponse(FALSE, 200, TRUE, TRUE, body(None, Some(Poly(11)))),
                    MkResponse(FALSE, 200, TRUE, TRUE, body(Some(MkMatched(4, 0)), None)),
                    MkResponse(FALSE, 200, TRUE, TRUE, body(Some(MkMatched(5, 0)), None)) }

TrackInit ==
    /\ ChunkIdle
    /\ AdapterIdle
    /\ FnIdle
    /\ impl = "app"
    /\ processed_points \in ProcessedTracks
    /\ track_pc = "split"
    /\ track_chunks = <<>>
    /\ chunk_i = 0
    /\ sub_chunks = <<>>
    /\ sub_i = 0
    /\ processed_chunks = <<>>
    /\ attempts = <<>>

TrackAdapterPost == AdapterPostReturns(TrackResponses(chunk))

TrackNext ==
    \/ TrackSplit
    \/ ChunkTrackEnter
    \/ ChunkLoopStep
    \/ ChunkLoopExit
    \/ TrackChunksReady
    \/ TrackCall
    \/ AdapterPostRaises
    \/ TrackAdapterPost
    \/ AdapterReturn
    \/ TrackMatched
    \/ TrackSubChunksReady
    \/ TrackSubCall
    \/ TrackSubMatched
    \/ TrackSubDone
    \/ TrackConnect

SpecTrack == TrackInit /\ [][TrackNext]_vars

\* a call of chunk_track runs on: a step of it that can be taken is not put
\* off forever
SpecTrackFair == SpecTrack /\ WF_vars(ChunkNext)

-----------------------------------------------------------------------------
(* Properties of the adapter, over SpecAdapter.                             *)

AdapterDone == adapter_pc = "done"

\* the service answered with a status of S
Answered(S) == AdapterDone /\ ~res.raises /\ res.status \in S

\* the body was parsed into a JSON object
ParsedObject == Answered({200}) /\ res.parses /\ res.is_object

\* the (lat, lon) of every point of ch, in order
Coords(ch) == [ k \in 1 .. Len(ch) |-> [lat |-> ch[k].lat, lon |-> ch[k].lon] ]

\* the original chunk, unchanged, in the representation the implementation
\* returns: the point dicts of services/, the (lat, lon) tuples of app.py
ChunkUnchanged(im, ch) ==
    IF im = "services" THEN ListResult(ch) ELSE ListResult(Coords(ch))

\* C3 (as stated): on 502, 503 or 504 the adapter returns the original chunk
\* unchanged, never null.
C3_UnavailableIsPassthrough ==
    Answered({502, 503, 504}) => adapter_result = ChunkUnchanged(impl, chunk)

\* what holds of C3: the adapter of services/ passes the chunk through with
\* time and speed intact, the adapter of app.py returns null
C3_OnlyServicesPassesThrough ==
    Answered({502, 503, 504}) =>
        adapter_result = IF impl = "services" THEN ListResult(chunk) ELSE NoneResult

\* C4: when the request raises (timeout or transport failure) or the status
\* is outside 2xx and none of 502, 503, 504, the adapter returns null.
C4_FailureIsNull ==
    (AdapterDone /\ (res.raises \/ (res.status \notin 200 .. 299
                                     /\ res.status \notin {502, 503, 504})))
        => adapter_result = NoneResult

C4_Witness ==
    /\ AdapterDone
    /\ impl = "services"
    /\ ~res.raises /\ res.status = 404
    /\ chunk # <<>>
    /\ adapter_result = NoneResult

C4_WitnessRaised ==
    AdapterDone /\ res.raises /\ chunk # <<>> /\ adapter_result = NoneResult

C6_WitnessErrorAlone ==
    /\ ParsedObject /\ impl = "services"
    /\ res.error /\ ~res.error_message
    /\ res.shape = Some(Poly(11))
    /\ ~adapter_result.none
    /\ Len(adapter_result.pts) = 11

\* every polyline of the body is complete
PolylinesDecode(r) ==
    /\ IsSome(r.shape) => ~decode_polyline(Val(r.shape)).raised
    /\ IsSome(r.edges) => ~EdgePoints(Val(r.edges)).raised

\* a well-formed body with no error field
WellFormed ==
    ParsedObject /\ PolylinesDecode(res) /\ ~res.error_message /\ ~res.error

\* the first usable result in the order matched points, shape, edges, and
\* Last(im, ch) when none is usable
FirstUsable(im, ch, r, Last(_, _)) ==
    LET mc == IF ~IsSome(r.matched_points) THEN <<>>
              ELSE IF im = "services" THEN matched_coords(ch, Val(r.matched_points))
              ELSE app_matched_coords(Val(r.matched_points))
        sh == IF IsSome(r.shape) THEN decode_polyline(Val(r.shape)).coords ELSE <<>>
        ed == IF IsSome(r.edges) THEN EdgePoints(Val(r.edges)).coords ELSE <<>>
        AsPoints(cs) == IF im = "services" THEN MapSeq(ShapeDict, cs) ELSE cs
    IN  IF 10 * Len(mc) > 3 * Len(ch) THEN ListResult(mc)
        ELSE IF Len(sh) > 10 THEN ListResult(AsPoints(sh))
        ELSE IF Len(ed) > 10 THEN ListResult(AsPoints(ed))
        ELSE Last(im, ch)

\* C7 (as stated): on a well-formed 200 body with no error field the adapter
\* returns the matched points if they are more than 30% of the chunk, else
\* the decoded shape if it has more than 10 points, else the concatenated
\* edge shapes if they have more than 10 points, else the original chunk
\* unchanged; the result is never null.
C7_FallbackOrder ==
    WellFormed =>
        /\ ~adapter_result.none
        /\ adapter_result = FirstUsable(impl, chunk, res, ChunkUnchanged)

\* the last resort of each implementation: services/ returns the chunk,
\* app.py the (lat, lon) of the points at the multiples of
\* max(1, len // 500)
LastResort(im, ch) ==
    IF im = "services" THEN ListResult(ch)
    ELSE LET rate == IF Len(ch) < 1000 THEN 1 ELSE Len(ch) \div 500
         IN  ListResult(Coords(SelectSeqByIndex(ch, rate)))

\* C7 (amended): the same order, with the last resort of app.py being the
\* sampled coordinates of the chunk (every point for a chunk of fewer than
\* 1000 points); the result is never null.
C7_FallbackOrderSampledInApp ==
    WellFormed =>
        /\ ~adapter_result.none
        /\ adapter_result = FirstUsable(impl, chunk, res, LastResort)

\* the last resort on a chunk that app.py samples
C7_Witness ==
    /\ WellFormed
    /\ impl = "app"
    /\ chunk = LongChunk
    /\ res.shape = Some(Poly(10))
    /\ Len(adapter_result.pts) = 500

\* the shape is taken although the matched points are there, too few
C7_WitnessShape ==
    /\ WellFormed
    /\ impl = "services"
    /\ Len(chunk) = 4
    /\ res.matched_points = Some(MkMatched(1, 0))
    /\ res.shape = Some(PolyTwoGroups)
    /\ res.edges = Some(<<[shape |-> Some(Poly(11))]>>)
    /\ Len(adapter_result.pts) = 11
    /\ adapter_result.pts[1].lat = 50

-----------------------------------------------------------------------------
(* Properties of process_track, over SpecTrack.                             *)

\* the calls of the adapter on the chunks themselves
TopAttempts == { k \in DOMAIN attempts : attempts[k].from[2] = 0 }

\* the calls of the adapter on the sub-chunks of chunk i
SubAttempts(i) ==
    { k \in DOMAIN attempts : attempts[k].from[1] = i /\ attempts[k].from[2] >= 1 }

\* the result of attempt a is in the stitcher's input
Appended(a) ==
    \E k \in DOMAIN processed_chunks :
        processed_chunks[k].from = a.from /\ Len(processed_chunks[k].pts) = a.n

\* the iteration of chunk i is over
Finished(i) == i < chunk_i

\* C8 (as stated): every result of the adapter that is not null is appended
\* to the stitcher's input.
C8_NonNullIsAppended ==
    \A k \in DOMAIN attempts :
        (~attempts[k].none /\ (attempts[k].from[2] >= 1 \/ Finished(attempts[k].from[1])))
            => Appended(attempts[k])

\* C8 (amended): a result is appended exactly when it is not null and has at
\* least 5 points; a result of fewer than 5 points, a passthrough of a short
\* chunk included, is treated like null.
C8_AppendedIffFivePoints ==
    \A k \in DOMAIN attempts :
        (attempts[k].from[2] >= 1 \/ Finished(attempts[k].from[1]))
            => (Appended(attempts[k]) <=> (~attempts[k].none /\ attempts[k].n >= 5))

\* a passthrough of a chunk of 4 points is left out
C8_Witness ==
    /\ track_pc = "connect"
    /\ attempts = <<[from |-> <<0, 0>>, len |-> 4, none |-> FALSE, n |-> 4]>>
    /\ res.status = 200 /\ res.matched_points = None
    /\ processed_chunks = <<>>

\* a result of exactly 5 points is appended
C8_WitnessFive ==
    /\ track_pc = "connect"
    /\ Len(attempts) = 1 /\ attempts[1].n = 5
    /\ Len(processed_chunks) = 1 /\ Len(processed_chunks[1].pts) = 5

\* the attempt failed: null, or too short to use
Failed(a) == a.none \/ a.n < 5

RetriedAt(k, i, m, size) ==
    /\ k + m <= Len(attempts)
    /\ \A j \in 1 .. m :
         attempts[k + j].from = <<i, j>> /\ attempts[k + j].len <= size
    /\ k + m < Len(attempts) => attempts[k + m + 1].from[2] = 0
    /\ SubAttempts(i) = (k + 1) .. (k + m)

C9_WitnessShort ==
    /\ track_pc = "connect"
    /\ attempts = <<[from |-> <<0, 0>>, len |-> 3, none |-> TRUE, n |-> 0]>>

\* (chunk, sub-chunk) a comes before b
Before(a, b) == a[1] < b[1] \/ (a[1] = b[1] /\ a[2] < b[2])

\* C10: the results handed to connect_processed_chunks are in chunk order,
\* those of the sub-chunks of a chunk in sub-chunk order in the place of
\* the chunk.
C10_ResultsInChunkOrder ==
    \A k, l \in DOMAIN processed_chunks :
        k < l => Before(processed_chunks[k].from, processed_chunks[l].from)

\* results of sub-chunks 1, 3 and 4 of chunk 0, then that of chunk 1
C10_Witness ==
    /\ track_pc = "connect"
    /\ Len(processed_chunks) = 4
    /\ processed_chunks[1].from = <<0, 1>>
    /\ processed_chunks[2].from = <<0, 3>>
    /\ processed_chunks[3].from = <<0, 4>>
    /\ processed_chunks[4].from = <<1, 0>>
    /\ processed_chunks[2].pts[1].lat = 10 * 1599

-----------------------------------------------------------------------------
(* smooth_track: src/services/points_smoother.py:137-160, and the same     *)
(* code in src/services/interpolator.py:38-61 and src/app.py:76-95.        *)
(*                                                                          *)
(* Coordinates are whole numbers of a unit fine enough for the quotients   *)
(* of the inputs tried to be whole (the inputs are multiples of 60).       *)

\* points_smoother.py:147: i < half or i > n-half-1
IsEdge(i, n, half) == i < half \/ i > n - half - 1

\* variant: the mean of the point and the half window before it
smoothed_point_Trailing(pts, i, window) ==
    LET half == window \div 2
        lats == [ k \in 1 .. Len(pts) |-> pts[k].lat ]
        lons == [ k \in 1 .. Len(pts) |-> pts[k].lon ]
    IN  [idx   |-> At(pts, i).idx,
         lat   |-> SumOver(lats, i - half + 1, i + 1) \div (half + 1),
         lon   |-> SumOver(lons, i - half + 1, i + 1) \div (half + 1),
         time  |-> At(pts, i).time,
         speed |-> None]

\* points_smoother.py:152-158: the point put in the place of points[i]; the
\* new dict has the keys lat, lon and time only
smoothed_point(pts, i, window) ==
    LET half == window \div 2
        lats == [ k \in 1 .. Len(pts) |-> pts[k].lat ]
        lons == [ k \in 1 .. Len(pts) |-> pts[k].lon ]
    IN  [idx   |-> At(pts, i).idx,
         lat   |-> SumOver(lats, i - half + 1, i + half + 1) \div window,
         lon   |-> SumOver(lons, i - half + 1, i + half + 1) \div window,
         time  |-> At(pts, i).time,
         speed |-> None]

\* points_smoother.py:137-160
smooth_track(pts, window) ==
    IF window < 3 \/ Len(pts) < window THEN pts
    ELSE [ k \in 1 .. Len(pts) |->
             IF IsEdge(k - 1, Len(pts), window \div 2)
             THEN pts[k]
             ELSE smoothed_point(pts, k - 1, window) ]

\* the call of smooth_track(fn_in, fn_par.window) returns
SmoothCall ==
    /\ fn_pc = "call"
    /\ fn_out' = smooth_track(fn_in, fn_par.window)
    /\ fn_pc' = "returned"
    /\ UNCHANGED <<impl, fn_in, fn_par, outside_fn>>

\* ---- the inputs of SpecSmooth ----

\* most points of a track given to smooth_track
MaxSmoothLen == 6

\* a track whose point k has the latitude lats[k]; mode 0: no time or
\* speed, 1: every point has both, 2: odd points have a time only
MkSmoothTrack(lats, mode) ==
    [ k \in 1 .. Len(lats) |->
        [idx   |-> k - 1,
         lat   |-> lats[k],
         lon   |-> 60 * k * k,
         time  |-> IF mode = 1 \/ (mode = 2 /\ k % 2 = 1) THEN Some(10 * k) ELSE None,
         speed |-> IF mode = 1 THEN Some(30 + k) ELSE None] ]

SmoothTracks ==
    UNION { { MkSmoothTrack(lats, mode) : lats \in [1 .. n -> {0, 60}], mode \in 0 .. 2 }
            : n \in 0 .. MaxSmoothLen }

Windows == {1, 2, 3, 4, 5}

SmoothInit ==
    /\ ChunkIdle
    /\ AdapterIdle
    /\ TrackIdle
    /\ impl = "services"
    /\ fn_in \in SmoothTracks
    /\ fn_par \in [window : Windows]
    /\ fn_pc = "call"
    /\ fn_out = <<>>

SmoothNext == SmoothCall

SpecSmooth == SmoothInit /\ [][SmoothNext]_vars

\* ---- properties of smooth_track, over SpecSmooth ----

\* smooth_track has smoothed: the window is at least 3 and fits the track
Smoothed ==
    fn_pc = "returned" /\ fn_par.window >= 3 /\ Len(fn_in) >= fn_par.window

\* W times the coordinate of out is the sum of that coordinate over the W
\* points of the track that start half a window before position k
IsMeanOfWindow(out, track, k, W) ==
    LET first == k - W \div 2
        lats  == [ j \in 1 .. Len(track) |-> track[j].lat ]
        lons  == [ j \in 1 .. Len(track) |-> track[j].lon ]
    IN  /\ W * out.lat = SumOver(lats, first, first + W - 1)
        /\ W * out.lon = SumOver(lons, first, first + W - 1)

\* the length is kept, the first and last floor(W/2) points are the input
\* points, each interior point is the mean of its window, and a window below
\* 3 or longer than the track leaves the input as it is
SmoothContract ==
    LET W == fn_par.window
        n == Len(fn_in)
    IN  /\ Len(fn_out) = n
        /\ (W < 3 \/ n < W) => fn_out = fn_in
        /\ Smoothed =>
             \A k \in 1 .. n :
                IF k <= W \div 2 \/ k > n - W \div 2
                THEN fn_out[k] = fn_in[k]
                ELSE IsMeanOfWindow(fn_out[k], fn_in, k, W)

\* C17 (as stated): the contract of smooth_track, for every window W.
C17_SmoothContract == fn_pc = "returned" => SmoothContract

\* C17 (amended): the contract of smooth_track for every odd window W (an
\* even window of 3 or more averages W + 1 points and divides by W).
C17_SmoothContractOddWindow ==
    (fn_pc = "returned" /\ fn_par.window % 2 = 1) => SmoothContract

\* a window of 5 on 6 points: two interior points, neither equal to its input
C17_Witness ==
    /\ Smoothed
    /\ fn_par.window = 5 /\ Len(fn_in) = 6
    /\ fn_out[3].lat # fn_in[3].lat
    /\ fn_out[4].lat # fn_in[4].lat
    /\ fn_out[2] = fn_in[2]

\* C18 (as stated): every smoothed point has the time and the speed of the
\* input point at its index.
C18_SmoothKeepsTimeAndSpeed ==
    fn_pc = "returned" =>
        \A k \in 1 .. Len(fn_in) :
            fn_out[k].time = fn_in[k].time /\ fn_out[k].speed = fn_in[k].speed

\* what holds of C18: the time is kept, and the speed of the points copied at
\* the edges; a smoothed interior point has no speed
C18_SmoothKeepsTimeDropsSpeed ==
    Smoothed =>
        \A k \in 1 .. Len(fn_in) :
            /\ fn_out[k].time = fn_in[k].time
            /\ fn_out[k].speed =
                 IF IsEdge(k - 1, Len(fn_in), fn_par.window \div 2)
                 THEN fn_in[k].speed ELSE None

-----------------------------------------------------------------------------
(* interpolate_track: src/services/interpolator.py:64-106, and the same    *)
(* code in src/app.py:98-140.                                               *)
(*                                                                          *)
(* The tracks of this model run along a meridian, where the haversine      *)
(* distance is the difference of the latitudes.  A latitude is a whole     *)
(* number of units of arc, Unit to the metre, and a time a whole number of *)
(* units, Unit to the second, so that the fractions k/(num_new+1) of the   *)
(* gaps tried are whole.                                                    *)

\* units per metre and per second: a multiple of every num_new + 1 up to 7
Unit == 3 * 4 * 5 * 7

\* interpolator.py:26-35, for two points of one meridian (lon1 = lon2): R * c
\* with c the difference of the latitudes in radians
haversine(lat1, lon1, lat2, lon2) == Abs(lat2 - lat1)

\* interpolator.py:87: the spatial gap above which points are inserted, metres
MaxDistGap == 15

\* interpolator.py:81-86
TimeDiff(p1, p2) ==
    IF IsSome(p2.time) /\ IsSome(p1.time) THEN Val(p2.time) - Val(p1.time) ELSE 0

\* variant: the count of points to insert looks at the distance alone
num_new_ByDistOnly(dist, dt, max_time_gap) ==
    Max(1, dist \div (MaxDistGap * Unit))

\* variant: one point less than the larger of the ceilings of the gaps over
\* their thresholds
num_new_Ceiling(dist, dt, max_time_gap) ==
    Max((dist + MaxDistGap * Unit - 1) \div (MaxDistGap * Unit),
        (dt + max_time_gap - 1) \div max_time_gap) - 1

\* interpolator.py:89-91
num_new(dist, dt, max_time_gap) ==
    LET num_by_dist == Max(1, dist \div (MaxDistGap * Unit))
        num_by_time == Max(1, dt \div max_time_gap)
    IN  Max(num_by_dist, num_by_time)

\* (k * d) \div m, computed without the product k * d: the fraction k / m
\* of the difference d
Share(k, d, m) == k * (d \div m) + (k * (d % m)) \div m

\* interpolator.py:93-103: the k-th of n points put between p1 and p2
interpolated_point(p1, p2, k, n) ==
    [idx   |-> NewIdx,
     lat   |-> p1.lat + Share(k, p2.lat - p1.lat, n + 1),
     lon   |-> p1.lon + Share(k, p2.lon - p1.lon, n + 1),
     time  |-> IF IsSome(p1.time) /\ IsSome(p2.time)
               THEN Some(Val(p1.time) + Share(k, TimeDiff(p1, p2), n + 1))
               ELSE None,
     speed |-> None]

\* interpolator.py:76-103: one turn of the loop: p1, then the points put
\* between p1 and p2
Segment(p1, p2, max_time_gap) ==
    LET dist == haversine(p1.lat, p1.lon, p2.lat, p2.lon)
        dt   == TimeDiff(p1, p2)
    IN  IF dist > MaxDistGap * Unit \/ dt > max_time_gap
        THEN <<p1>> \o [ k \in 1 .. num_new(dist, dt, max_time_gap) |->
                           interpolated_point(p1, p2, k, num_new(dist, dt, max_time_gap)) ]
        ELSE <<p1>>

\* interpolator.py:64-106
interpolate_track(pts, max_time_gap) ==
    IF pts = <<>> THEN pts
    ELSE <<pts[1]>>
         \o Concat([ i \in 1 .. Len(pts) - 1 |-> Segment(pts[i], pts[i + 1], max_time_gap) ])
         \o <<pts[Len(pts)]>>

\* the call of interpolate_track(fn_in, fn_par.max_time_gap) returns
InterpCall ==
    /\ fn_pc = "call"
    /\ fn_out' = interpolate_track(fn_in, fn_par.max_time_gap)
    /\ fn_pc' = "returned"
    /\ UNCHANGED <<impl, fn_in, fn_par, outside_fn>>

\* ---- the inputs of SpecInterp ----

\* most points of a track given to interpolate_track
MaxInterpLen == 3

\* the steps from one point to the next: metres north and seconds later
Steps == [d : {0, 15, 16, 30, 44, 70, 89}, t : {0, 1, 3}]

\* the track of a first point and the steps after it; mode 0: every point
\* has a time, 1: none has, 2: the points at even indices have
MkInterpTrack(steps, mode) ==
    LET lats  == [ k \in 0 .. Len(steps) |-> SumOver([ j \in 1 .. Len(steps) |-> steps[j].d ], 1, k) ]
        times == [ k \in 0 .. Len(steps) |-> SumOver([ j \in 1 .. Len(steps) |-> steps[j].t ], 1, k) ]
    IN  [ k \in 1 .. Len(steps) + 1 |->
            [idx   |-> k - 1,
             lat   |-> lats[k - 1] * Unit,
             lon   |-> 0,
             time  |-> IF mode = 0 \/ (mode = 2 /\ k % 2 = 1)
                       THEN Some((100 + times[k - 1]) * Unit) ELSE None,
             speed |-> None] ]

InterpTracks ==
    {<<>>} \cup
    UNION { { MkInterpTrack(steps, mode) : steps \in [1 .. n -> Steps], mode \in 0 .. 2 }
            : n \in 0 .. MaxInterpLen - 1 }

\* max_time_gap: half a second (app.py:441) and one second (the default)
TimeGaps == {Unit \div 2, Unit}

InterpInit ==
    /\ ChunkIdle
    /\ AdapterIdle
    /\ TrackIdle
    /\ impl \in {"services", "app"}
    /\ fn_in \in InterpTracks
    /\ fn_par \in [max_time_gap : TimeGaps]
    /\ fn_pc = "call"
    /\ fn_out = <<>>

InterpNext == InterpCall

SpecInterp == InterpInit /\ [][InterpNext]_vars

\* ---- properties of interpolate_track, over SpecInterp ----

\* the points of the input track that are in s, in the order of s
Originals(s) == SelectSeq(s, LAMBDA p : p.idx # NewIdx)

\* p lies between the input points a and b
Between(p, a, b) ==
    /\ Min(a.lat, b.lat) <= p.lat /\ p.lat <= Max(a.lat, b.lat)
    /\ Min(a.lon, b.lon) <= p.lon /\ p.lon <= Max(a.lon, b.lon)

\* every point of s that is no input point lies between two consecutive
\* points of the track
InsertedAreBetween(s, track) ==
    \A k \in 1 .. Len(s) :
        s[k].idx = NewIdx =>
            \E i \in 1 .. Len(track) - 1 : Between(s[k], track[i], track[i + 1])

\* C15 (as stated): the output of interpolate_track on a non-empty track has
\* every input point once and in order, and every other point of it lies
\* between two consecutive input points.
C15_InterpolateKeepsInputOnce ==
    (fn_pc = "returned" /\ fn_in # <<>>) =>
        /\ Originals(fn_out) = fn_in
        /\ InsertedAreBetween(fn_out, fn_in)

\* what holds of C15: the output is the first input point followed by a
\* sequence of which the claim is true
C15_FirstPointTwice ==
    (fn_pc = "returned" /\ fn_in # <<>>) =>
        /\ fn_out[1] = fn_in[1]
        /\ Originals(Tail(fn_out)) = fn_in
        /\ InsertedAreBetween(fn_out, fn_in)

PlaceOf(i) == CHOOSE k \in 2 .. Len(fn_out) : fn_out[k].idx = i

\* the number of parts the output cuts the pair of the input points of
\* index i - 1 and i into: one more than the points put between them
SubSegments(i) == PlaceOf(i) - PlaceOf(i - 1)

\* the distance and the time gap of that pair
GapDist(i) ==
    haversine(fn_in[i].lat, fn_in[i].lon, fn_in[i + 1].lat, fn_in[i + 1].lon)
GapTime(i) == TimeDiff(fn_in[i], fn_in[i + 1])

\* the pair exceeds the distance or the time threshold
ExceedsThreshold(i) ==
    GapDist(i) > MaxDistGap * Unit \/ GapTime(i) > fn_par.max_time_gap

\* the ceiling of a / b
Ceil(a, b) == (a + b - 1) \div b

\* the points between the pair are at the fractions k / SubSegments of the
\* way from the first to the second, in lat, lon and, when both have a
\* time, time; they have no time otherwise
EvenlySpaced(i) ==
    LET p1 == fn_in[i]
        p2 == fn_in[i + 1]
        n  == SubSegments(i)
    IN  \A k \in 1 .. n - 1 :
            LET q == fn_out[PlaceOf(i - 1) + k]
            IN  /\ q.idx = NewIdx
                /\ n * (q.lat - p1.lat) = k * (p2.lat - p1.lat)
                /\ n * (q.lon - p1.lon) = k * (p2.lon - p1.lon)
                /\ IF IsSome(p1.time) /\ IsSome(p2.time)
                   THEN /\ IsSome(q.time)
                        /\ n * (Val(q.time) - Val(p1.time)) = k * GapTime(i)
                   ELSE q.time = None

\* C28 (as stated): a pair of consecutive input points beyond the distance
\* or the time threshold is cut into exactly
\* max(ceil(distance / 15), ceil(time gap / threshold)) parts by evenly
\* spaced interpolated points, whose time is interpolated only when both
\* points of the pair have one.
C28_CeilingSubSegments ==
    fn_pc = "returned" =>
        \A i \in 1 .. Len(fn_in) - 1 :
            ExceedsThreshold(i) =>
                /\ SubSegments(i) = Max(Ceil(GapDist(i), MaxDistGap * Unit),
                                        Ceil(GapTime(i), fn_par.max_time_gap))
                /\ EvenlySpaced(i)

\* C28 (amended): such a pair is cut into exactly
\* max(1, floor(distance / 15), floor(time gap / threshold)) + 1 parts by
\* evenly spaced interpolated points, whose time is interpolated only when
\* both points of the pair have one; a gap of 70 m without a time gap gets
\* 4 points.
C28_FloorPlusOneSubSegments ==
    fn_pc = "returned" =>
        \A i \in 1 .. Len(fn_in) - 1 :
            /\ ExceedsThreshold(i) =>
                  /\ SubSegments(i) =
                        Max(1, Max(GapDist(i) \div (MaxDistGap * Unit),
                                   GapTime(i) \div fn_par.max_time_gap)) + 1
                  /\ EvenlySpaced(i)
            /\ (GapDist(i) = 70 * Unit /\ GapTime(i) = 0) => SubSegments(i) - 1 = 4

\* a gap of 70 m without a time gap is cut into 5 parts, and a gap of 30 m
\* in 3 s into 4 parts at the threshold of one second
C28_Witness ==
    /\ fn_pc = "returned"
    /\ Len(fn_in) = 3
    /\ fn_par.max_time_gap = Unit
    /\ GapDist(1) = 70 * Unit /\ GapTime(1) = 0
    /\ GapDist(2) = 30 * Unit /\ GapTime(2) = 3 * Unit
    /\ SubSegments(1) = 5
    /\ SubSegments(2) = 4

-----------------------------------------------------------------------------
(* connect_processed_chunks: src/services/track_chunks_processor.py:30-93  *)
(* and src/app.py:375-433.                                                  *)
(*                                                                          *)
(* A point is the record of its lat and lon (a (lat, lon) tuple in app.py, *)
(* a dict in the services), in the units of interpolate_track above, on    *)
(* one meridian.  A result is the stitched track, or the exception raised. *)

StitchRaised == [raised |-> TRUE, track |-> <<>>]
StitchResult(track) == [raised |-> FALSE, track |-> track]

\* variant: the next chunk is appended whole however close the seam is
services_connect_Whole(connected, ch) == StitchResult(connected \o ch)

\* track_chunks_processor.py:43-91: one turn of the loop for a chunk that is
\* not empty; connected[-1] raises IndexError on an empty list
services_connect(connected, ch) ==
    IF connected = <<>> THEN StitchRaised
    ELSE LET p1   == connected[Len(connected)]
             p2   == ch[1]
             dist == haversine(p1.lat, p1.lon, p2.lat, p2.lon)
             midpoint == [lat |-> (p1.lat + p2.lat) \div 2,
                          lon |-> (p1.lon + p2.lon) \div 2]
         IN  IF dist < 10 * Unit THEN StitchResult(connected \o PySlice(ch, 1, Len(ch)))
             ELSE IF dist < 80 * Unit THEN StitchResult(connected \o <<midpoint>> \o ch)
             ELSE StitchResult(connected \o ch)

\* app.py:391-404: the closest pair of a point of last_points and a point of
\* first_points, the first such pair in the order of the two loops
ClosestPair(last_points, first_points) ==
    LET dist(j, k) == haversine(last_points[j].lat, last_points[j].lon,
                                first_points[k].lat, first_points[k].lon)
        J == 1 .. Len(last_points)
        K == 1 .. Len(first_points)
        D == { dist(j, k) : j \in J, k \in K }
        min_dist == CHOOSE d \in D : \A e \in D : d <= e
        jb == CHOOSE j \in J :
                /\ \E k \in K : dist(j, k) = min_dist
                /\ \A j2 \in J : (\E k \in K : dist(j2, k) = min_dist) => j <= j2
        kb == CHOOSE k \in K :
                /\ dist(jb, k) = min_dist
                /\ \A k2 \in K : dist(jb, k2) = min_dist => k <= k2
    IN  [min_dist |-> min_dist, j |-> jb - 1, k |-> kb - 1]

\* app.py:413-423: the points put between the two chunks
Transition(p1, p2, min_dist) ==
    LET steps == Min(10, Max(3, min_dist \div (30 * Unit)))
    IN  [ step \in 1 .. steps - 1 |->
            [lat |-> p1.lat + (step * (p2.lat - p1.lat)) \div steps,
             lon |-> p1.lon + (step * (p2.lon - p1.lon)) \div steps] ]

\* app.py:426, 430
skip_count(ch) == Min(2, Len(ch) \div 30)

\* app.py:385-431: one turn of the loop for a chunk that is not empty
app_connect(connected, ch) ==
    IF Len(connected) > 10 /\ Len(ch) > 10
    THEN LET best == ClosestPair(PySlice(connected, 0 - 30, Len(connected)),
                                 PySlice(ch, 0, 30))
             best_prev_idx == Len(connected) - 30 + best.j
             best_new_idx  == best.k
         IN  IF best.min_dist < 30 * Unit
             THEN StitchResult(PySlice(connected, 0, best_prev_idx + 1)
                               \o PySlice(ch, best_new_idx, Len(ch)))
             ELSE StitchResult(
                    (IF best.min_dist < 300 * Unit
                     THEN connected \o Transition(connected[Len(connected)], ch[1], best.min_dist)
                     ELSE connected)
                    \o PySlice(ch, skip_count(ch), Len(ch)))
    ELSE StitchResult(connected \o PySlice(ch, skip_count(ch), Len(ch)))

\* the loop over chunks[1:], empty chunks skipped, with the step of the file
RECURSIVE ConnectLoop(_, _, _)
ConnectLoop(file, connected, rest) ==
    IF rest = <<>> THEN StitchResult(connected)
    ELSE IF Head(rest) = <<>> THEN ConnectLoop(file, connected, Tail(rest))
    ELSE LET r == IF file = "app" THEN app_connect(connected, Head(rest))
                  ELSE services_connect(connected, Head(rest))
         IN  IF r.raised THEN r ELSE ConnectLoop(file, r.track, Tail(rest))

\* track_chunks_processor.py:30-93 and app.py:375-433
connect_processed_chunks(file, cs) ==
    IF cs = <<>> THEN StitchResult(<<>>)
    ELSE IF Len(cs) = 1 THEN StitchResult(cs[1])
    ELSE ConnectLoop(file, cs[1], Tail(cs))

\* the call of connect_processed_chunks(fn_in) returns or raises
StitchCall ==
    /\ fn_pc = "call"
    /\ fn_out' = connect_processed_chunks(impl, fn_in)
    /\ fn_pc' = "returned"
    /\ UNCHANGED <<impl, fn_in, fn_par, outside_fn>>

\* ---- the inputs of SpecStitch ----

\* most chunks in a list given to connect_processed_chunks
MaxStitchChunks == 3

\* a chunk of len points 10 m apart heading north, the first at start metres
MkStitchChunk(start, len) ==
    [ k \in 1 .. len |-> [lat |-> (start + 10 * (k - 1)) * Unit, lon |-> 0] ]

\* the latitude in metres where a chunk of len points from start ends
ChunkEnd(start, len) == IF len = 0 THEN start ELSE start + 10 * (len - 1)

\* a chunk: its length and the metres from the end of the chunks before it
\* to its first point (below zero: the chunk starts inside the one before)
ChunkShapes == [len : {0, 2, 11, 30}, gap : {0 - 20, 0, 5, 40, 400}]

\* the chunks of the shapes, laid out from start
RECURSIVE MkChunks(_, _)
MkChunks(shapes, start) ==
    IF shapes = <<>> THEN <<>>
    ELSE LET first == start + Head(shapes).gap
         IN  <<MkStitchChunk(first, Head(shapes).len)>>
             \o MkChunks(Tail(shapes),
                         IF Head(shapes).len = 0 THEN start
                         ELSE ChunkEnd(first, Head(shapes).len))

\* the lists of at most max chunks
ChunkLists(max) ==
    UNION { { MkChunks(shapes, 1000) : shapes \in [1 .. n -> ChunkShapes] }
            : n \in 0 .. max }

StitchInit ==
    /\ ChunkIdle
    /\ AdapterIdle
    /\ TrackIdle
    /\ impl \in {"services", "app"}
    /\ fn_in \in ChunkLists(MaxStitchChunks)
    /\ fn_par = <<>>
    /\ fn_pc = "call"
    /\ fn_out = <<>>

StitchNext == StitchCall

SpecStitch == StitchInit /\ [][StitchNext]_vars

\* ---- properties of connect_processed_chunks, over SpecStitch ----

\* the distance between the end of chunk a and the start of chunk b
SeamDist(a, b) == haversine(a[Len(a)].lat, a[Len(a)].lon, b[1].lat, b[1].lon)

\* two chunks, neither empty, whose seam points coincide or are 5 m apart,
\* have been stitched
TwoChunksCloseSeam ==
    /\ fn_pc = "returned"
    /\ Len(fn_in) = 2
    /\ fn_in[1] # <<>> /\ fn_in[2] # <<>>
    /\ SeamDist(fn_in[1], fn_in[2]) \in {0, 5 * Unit}

\* C13 (as stated): stitching two chunks A and B whose seam points coincide
\* or are 5 m apart gives all of A followed by B without its first point,
\* len(A) + len(B) - 1 points.
C13_SeamPointOnce ==
    TwoChunksCloseSeam =>
        /\ ~fn_out.raised
        /\ fn_out.track = fn_in[1] \o Tail(fn_in[2])
        /\ Len(fn_out.track) = Len(fn_in[1]) + Len(fn_in[2]) - 1

\* what holds of C13: the stitcher of the services does as the claim says
C13_SeamPointOnceInServices == impl = "services" => C13_SeamPointOnce

\* the list without its empty chunks
NonEmpty(cs) == SelectSeq(cs, LAMBDA c : c # <<>>)

\* C14 (as stated): the empty list gives the empty track, a list of one
\* chunk gives that chunk, and a longer list gives what the list without its
\* empty chunks gives.
C14_EmptyChunksAreSkipped ==
    fn_pc = "returned" =>
        /\ ~fn_out.raised
        /\ fn_in = <<>> => fn_out.track = <<>>
        /\ Len(fn_in) = 1 => fn_out.track = fn_in[1]
        /\ fn_out = connect_processed_chunks(impl, NonEmpty(fn_in))

\* what holds of C14: the claim, for the lists whose first chunk is not empty
C14_SkippedAfterTheFirst ==
    (fn_pc = "returned" /\ (Len(fn_in) > 1 => fn_in[1] # <<>>)) =>
        /\ ~fn_out.raised
        /\ fn_in = <<>> => fn_out.track = <<>>
        /\ Len(fn_in) = 1 => fn_out.track = fn_in[1]
        /\ fn_out = connect_processed_chunks(impl, NonEmpty(fn_in))

-----------------------------------------------------------------------------
(* refine_points and interpolate_speed_idw:                                 *)
(* src/services/timestamp_speed_adjuster.py.                                *)
(*                                                                          *)
(* The points lie on one meridian, a latitude a whole number of metres of  *)
(* arc.  A time is a whole number of TimeUnit-ths of a second and a speed  *)
(* a whole number of hundredths of a km/h.  The estimate of a speed is a   *)
(* fraction num/den of such hundredths.                                     *)

\* units per second: a multiple of every distance between two anchors tried
TimeUnit == 8 * 9 * 5 * 7

\* functions/haversine.py:18-30, for two points of one meridian
haversine_distance(lat1, lon1, lat2, lon2) == Abs(lat2 - lat1)

\* timestamp_speed_adjuster.py:66-73
cumdist(pts) ==
    [ i \in 1 .. Len(pts) |->
        SumOver([ k \in 1 .. Len(pts) |->
                    IF k = 1 THEN 0
                    ELSE haversine_distance(pts[k - 1].lat, pts[k - 1].lon,
                                            pts[k].lat, pts[k].lon) ], 1, i) ]

\* the product of the squared distances from target to the points of K
RECURSIVE ProdSq(_, _, _)
ProdSq(cum, target, K) ==
    IF K = {} THEN 1
    ELSE LET k == CHOOSE x \in K : TRUE
             d == Abs(cum[k] - cum[target])
         IN  d * d * ProdSq(cum, target, K \ {k})

\* the sum of f[k] for k in K
RECURSIVE SumSet(_, _)
SumSet(f, K) ==
    IF K = {} THEN 0
    ELSE LET k == CHOOSE x \in K : TRUE IN f[k] + SumSet(f, K \ {k})

\* timestamp_speed_adjuster.py:6-35, target_idx and known_idxs as indices of
\* pts from 1: None without known speeds, the speed of the first known point
\* at the place of the target, else the mean of the known speeds weighted by
\* 1 / dist_diff ** 2 (the weights brought to a common denominator)
interpolate_speed_idw(pts, cum, target_idx, known_idxs) ==
    LET K    == { k \in known_idxs : IsSome(pts[k].speed) }
        Here == { k \in K : cum[k] = cum[target_idx] }
    IN  IF known_idxs = {} THEN None
        ELSE IF Here # {}
        THEN Some([num |-> Val(pts[CHOOSE k \in Here : \A j \in Here : k <= j].speed),
                   den |-> 1])
        ELSE IF K = {} THEN None
        ELSE Some([num |-> SumSet([ k \in K |-> Val(pts[k].speed) * ProdSq(cum, target_idx, K \ {k}) ], K),
                   den |-> SumSet([ k \in K |-> ProdSq(cum, target_idx, K \ {k}) ], K)])

\* variant: the estimate is cut to one decimal
Round1_Truncating(est) == (est.num \div (10 * est.den)) * 10

\* round(spd_est, 1): the hundredths nearest to num/den that are a whole
\* number of tenths
Round1(est) == ((2 * est.num + 10 * est.den) \div (20 * est.den)) * 10

RefineRaised == [raised |-> TRUE, points |-> <<>>]
RefineResult(pts) == [raised |-> FALSE, points |-> pts]

\* timestamp_speed_adjuster.py:205-211: the loop from index i on; round(None, 1)
\* raises TypeError
RECURSIVE FillSpeeds(_, _, _, _)
FillSpeeds(pts, cum, known_speed_idxs, i) ==
    IF i > Len(pts) THEN RefineResult(pts)
    ELSE IF IsSome(pts[i].speed) THEN FillSpeeds(pts, cum, known_speed_idxs, i + 1)
    ELSE LET spd_est == interpolate_speed_idw(pts, cum, i, known_speed_idxs)
         IN  IF spd_est = None THEN RefineRaised
             ELSE FillSpeeds([pts EXCEPT ![i].speed = Some(Round1(Val(spd_est)))],
                             cum, known_speed_idxs, i + 1)

\* timestamp_speed_adjuster.py:88-90: the chunks of anchors, as pairs of the
\* positions in the sorted list of anchors (from 1, both ends included)
AnchorChunks(anchor_count, chunk_size) ==
    { <<start + 1, Min(start + chunk_size, anchor_count)>> :
        start \in { x \in 0 .. anchor_count - 2 : x % (chunk_size - 1) = 0 } }

\* timestamp_speed_adjuster.py:101-104: the distances of the anchors of a
\* chunk, a distance d + e * 1e-6 as the pair <<d, e>>: an anchor that is not
\* farther along the track than the one before it is put 1e-6 after it
RECURSIVE NudgedDistances(_, _, _)
NudgedDistances(anchor_idxs, cum, before) ==
    IF anchor_idxs = <<>> THEN <<>>
    ELSE LET d   == cum[Head(anchor_idxs)]
             cur == IF before # None /\ d <= Val(before)[1]
                    THEN <<Val(before)[1], Val(before)[2] + 1>>
                    ELSE <<d, 0>>
         IN  <<cur>> \o NudgedDistances(Tail(anchor_idxs), cum, Some(cur))

\* timestamp_speed_adjuster.py:129: d > prev_d + 1e-6
FartherThanEpsilon(d, prev_d) ==
    d[1] > prev_d[1] \/ (d[1] = prev_d[1] /\ d[2] > prev_d[2] + 1)

\* timestamp_speed_adjuster.py:126-135: the positions in the chunk of the
\* anchors that are kept, those more than 1e-6 after the one kept before
RECURSIVE KeptAnchors(_, _, _)
KeptAnchors(anchor_d, k, prev) ==
    IF k > Len(anchor_d) THEN <<>>
    ELSE IF prev = None \/ FartherThanEpsilon(anchor_d[k], Val(prev))
         THEN <<k>> \o KeptAnchors(anchor_d, k + 1, Some(anchor_d[k]))
         ELSE KeptAnchors(anchor_d, k + 1, prev)

\* timestamp_speed_adjuster.py:101-135: the anchors of a chunk that the
\* spline is built from
CleanAnchors(anchor_idxs, cum, prev) ==
    LET kept == KeptAnchors(NudgedDistances(anchor_idxs, cum, prev), 1, None)
    IN  [ k \in 1 .. Len(kept) |-> anchor_idxs[kept[k]] ]

\* timestamp_speed_adjuster.py:142, 153-161: PchipInterpolator over two
\* anchors is the line through them; two anchors at the same place are
\* 2e-6 apart, and a point at that place is at the first of them
time_spline(pts, cum, clean, pidx) ==
    CASE Len(clean) = 2 ->
        LET a == clean[1]
            b == clean[2]
        IN  IF cum[b] = cum[a] THEN Val(pts[a].time)
            ELSE Val(pts[a].time)
                 + ((cum[pidx] - cum[a]) * (Val(pts[b].time) - Val(pts[a].time)))
                   \div (cum[b] - cum[a])

\* timestamp_speed_adjuster.py:79-161: idx_time after the loop over the chunks
SplineTimes(pts, cum, kt, chunk_size) ==
    [ i \in 1 .. Len(pts) |->
        IF \E a \in 1 .. Len(kt) : kt[a] = i THEN pts[i].time
        ELSE LET Cs == { c \in AnchorChunks(Len(kt), chunk_size) :
                            /\ kt[c[1]] <= i /\ i <= kt[c[2]]
                            /\ Len(CleanAnchors(SubSeq(kt, c[1], c[2]), cum, None)) >= 2 }
             IN  IF Cs = {} THEN None
                 ELSE LET c == CHOOSE x \in Cs : TRUE
                      IN  Some(time_spline(pts, cum,
                                 CleanAnchors(SubSeq(kt, c[1], c[2]), cum, None), i)) ]

\* timestamp_speed_adjuster.py:164-193: the times still missing, from the
\* nearest times known before and after
FallbackTimes(idx_time, cum) ==
    [ i \in 1 .. Len(idx_time) |->
        IF IsSome(idx_time[i]) THEN idx_time[i]
        ELSE LET Before_ == { k \in 1 .. i - 1 : IsSome(idx_time[k]) }
                 After_  == { k \in i + 1 .. Len(idx_time) : IsSome(idx_time[k]) }
             IN  IF Before_ = {} \/ After_ = {} THEN None
                 ELSE LET l  == CHOOSE k \in Before_ : \A m \in Before_ : m <= k
                          j  == CHOOSE k \in After_ : \A m \in After_ : k <= m
                          t0 == Val(idx_time[l])
                          t1 == Val(idx_time[j])
                      IN  IF cum[j] = cum[l] THEN Some(t0)
                          ELSE Some(t0 + ((cum[i] - cum[l]) * (t1 - t0))
                                         \div (cum[j] - cum[l])) ]

\* timestamp_speed_adjuster.py:38-213; known_time_idxs a set of indices from
\* 1, known_speed_idxs such a set or None
refine_points(pts, known_time_idxs, known_speed_idxs, chunk_size) ==
    IF Len(pts) < 2 THEN RefineResult(pts)
    ELSE LET cum      == cumdist(pts)
             kt       == SortedSeq(known_time_idxs)
             idx_time == FallbackTimes(SplineTimes(pts, cum, kt, chunk_size), cum)
             timed    == [ i \in 1 .. Len(pts) |-> [pts[i] EXCEPT !.time = idx_time[i]] ]
         IN  FillSpeeds(timed, cum,
                        IF known_speed_idxs = None THEN {} ELSE Val(known_speed_idxs), 1)

\* the call of refine_points returns or raises
RefineCall ==
    /\ fn_pc = "call"
    /\ fn_out' = refine_points(fn_in, fn_par.known_time_idxs,
                               fn_par.known_speed_idxs, fn_par.chunk_size)
    /\ fn_pc' = "returned"
    /\ UNCHANGED <<impl, fn_in, fn_par, outside_fn>>

\* ---- the inputs of SpecRefine ----

\* most points of a track given to refine_points
MaxRefineLen == 4

\* a track: the metres from each point to the next, the speed of each point
\* and which points have a time (point k at 10 * k seconds)
MkRefineTrack(gaps, speeds, timed) ==
    [ k \in 1 .. Len(speeds) |->
        [idx   |-> k - 1,
         lat   |-> SumOver(gaps, 1, k - 1),
         lon   |-> 0,
         time  |-> IF k \in timed THEN Some(10 * k * TimeUnit) ELSE None,
         speed |-> speeds[k]] ]

\* no speed, and speeds with one and with two decimals: 12.3 and 12.38 km/h
Speeds == {None, Some(1230), Some(1238)}

\* every point has a time, none has, or the first and the last have
TimedSets(n) == {1 .. n, {}, {1, n} \cap (1 .. n)}

\* the tracks of at most max points
RefineTracks(max) ==
    UNION { { MkRefineTrack(gaps, speeds, timed) :
                gaps \in [1 .. n - 1 -> {0, 3}],
                speeds \in [1 .. n -> Speeds],
                timed \in TimedSets(n) }
            : n \in 1 .. max }
    \cup {<<>>}

\* the indices the workflow passes (track_processor.py:236-246): the points
\* with a time and the points with a speed; or no known_speed_idxs at all
RefineArgs(track) ==
    [known_time_idxs  : {{ i \in 1 .. Len(track) : IsSome(track[i].time) }},
     known_speed_idxs : {None, Some({ i \in 1 .. Len(track) : IsSome(track[i].speed) })},
     chunk_size       : {4}]

RefineInit ==
    /\ ChunkIdle
    /\ AdapterIdle
    /\ TrackIdle
    /\ impl = "services"
    /\ fn_in \in RefineTracks(MaxRefineLen)
    /\ fn_par \in RefineArgs(fn_in)
    /\ fn_pc = "call"
    /\ fn_out = <<>>

RefineNext == RefineCall

SpecRefine == RefineInit /\ [][RefineNext]_vars

\* ---- properties of refine_points, over SpecRefine ----

\* the indices of the points of the input that have a speed
WithSpeed == { i \in 1 .. Len(fn_in) : IsSome(fn_in[i].speed) }

\* refine_points was called with the indices of the points that have a
\* speed, and exactly one point has one
OneKnownSpeed ==
    /\ fn_pc = "returned"
    /\ Cardinality(WithSpeed) = 1
    /\ fn_par.known_speed_idxs = Some(WithSpeed)

\* the one known speed
TheSpeed == Val(fn_in[CHOOSE i \in WithSpeed : TRUE].speed)

\* t is a whole number of tenths and no tenth is nearer to v
IsTenthNearest(t, v) == t % 10 = 0 /\ 2 * Abs(t - v) <= 10

\* C19 (as stated): with exactly one known speed v, every point of the
\* result has the speed v.
C19_SingleSpeedFillsAll ==
    OneKnownSpeed =>
        /\ ~fn_out.raised
        /\ \A i \in 1 .. Len(fn_out.points) : fn_out.points[i].speed = Some(TheSpeed)

\* C19 (amended): with exactly one known speed v, the point that had it
\* keeps v and every other point has v rounded to one decimal.
C19_SingleSpeedFillsAllRounded ==
    OneKnownSpeed =>
        /\ ~fn_out.raised
        /\ Len(fn_out.points) = Len(fn_in)
        /\ \A i \in 1 .. Len(fn_out.points) :
              IF i \in WithSpeed THEN fn_out.points[i].speed = Some(TheSpeed)
              ELSE /\ IsSome(fn_out.points[i].speed)
                   /\ IsTenthNearest(Val(fn_out.points[i].speed), TheSpeed)

\* one known speed of 12.38 km/h at the second of four points, the first at
\* its place and the third away from it: the others get 12.4 km/h
C19_Witness ==
    /\ OneKnownSpeed
    /\ Len(fn_in) = 4
    /\ TheSpeed = 1238
    /\ WithSpeed = {2}
    /\ fn_in[1].lat = fn_in[2].lat
    /\ fn_in[3].lat # fn_in[2].lat
    /\ fn_out.points[1].speed = Some(1240)
    /\ fn_out.points[4].speed = Some(1240)

\* refine_points was called without a known speed
NoKnownSpeed ==
    /\ fn_pc = "returned"
    /\ WithSpeed = {}

\* C20 (as stated): without a known speed refine_points does not raise, and
\* every point of the result is without a speed.
C20_NoSpeedIsNull ==
    NoKnownSpeed =>
        /\ ~fn_out.raised
        /\ Len(fn_out.points) = Len(fn_in)
        /\ \A i \in 1 .. Len(fn_out.points) : fn_out.points[i].speed = None

\* what holds of C20: refine_points raises unless the track has fewer than
\* two points
C20_NoSpeedRaises ==
    NoKnownSpeed => (fn_out.raised <=> Len(fn_in) >= 2)

-----------------------------------------------------------------------------
(* The end of process_track in src/app.py:491-585: the stitched track is    *)
(* cleared of long straight lines and made denser.  The points are          *)
(* (lat, lon) tuples on one meridian, in the units of interpolate_track;    *)
(* a new coordinate that is no whole number of units is cut to one.         *)

\* app.py:533-537: the points that cut the line from p1 to p2 in steps parts
LinearSteps(p1, p2, steps) ==
    [ j \in 1 .. steps - 1 |->
        [lat |-> p1.lat + (j * (p2.lat - p1.lat)) \div steps,
         lon |-> p1.lon + (j * (p2.lon - p1.lon)) \div steps] ]

\* app.py:512-522: the indices (from 0) of the points around i that are
\* within search_radius = min(dist / 2, 500) of the middle of the line from
\* p1 to p2; both sides of the comparison are doubled
NearbyIdx(track, i, dist) ==
    LET p1 == At(track, i)
        p2 == At(track, i + 1)
    IN  { j \in Max(0, i - 10) .. Min(Len(track), i + 10) - 1 :
            /\ j # i /\ j # i + 1
            /\ haversine(2 * At(track, j).lat, 2 * At(track, j).lon,
                         p1.lat + p2.lat, p1.lon + p2.lon)
                 < Min(dist, 2 * 500 * Unit) }

\* app.py:528: the points of the indices J sorted by their distance from p1,
\* those at the same distance in the order of their indices
RECURSIVE SortByDistance(_, _, _)
SortByDistance(track, J, p1) ==
    IF J = {} THEN <<>>
    ELSE LET d(j) == haversine(At(track, j).lat, At(track, j).lon, p1.lat, p1.lon)
             m == CHOOSE j \in J :
                    \A k \in J : d(j) < d(k) \/ (d(j) = d(k) /\ j <= k)
         IN  <<At(track, m)>> \o SortByDistance(track, J \ {m}, p1)

\* app.py:497-537: one turn of the loop: p1, then what is put after it
SpikeSegment(track, i) ==
    LET p1   == At(track, i)
        p2   == At(track, i + 1)
        dist == haversine(p1.lat, p1.lon, p2.lat, p2.lon)
    IN  IF dist > 100 * Unit
        THEN IF NearbyIdx(track, i, dist) # {}
             THEN <<p1>> \o SortByDistance(track, NearbyIdx(track, i, dist), p1)
             ELSE <<p1>> \o LinearSteps(p1, p2, Max(5, dist \div (20 * Unit)))
        ELSE <<p1>>

\* app.py:494-544
remove_spikes(track) ==
    IF track # <<>> /\ Len(track) > 5
    THEN Concat([ k \in 1 .. Len(track) - 1 |-> SpikeSegment(track, k - 1) ])
         \o <<track[Len(track)]>>
    ELSE track

\* app.py:549-560: target_dist = min(3, max(0.5, avg_dist / 5)) as the
\* fraction num / den of units, avg_dist the mean of the distances above 0
\* between neighbours, 20 m without any
target_dist(track) ==
    LET dists == [ k \in 1 .. Len(track) - 1 |->
                     haversine(track[k].lat, track[k].lon,
                               track[k + 1].lat, track[k + 1].lon) ]
        total_dist == SumOver(dists, 1, Len(dists))
        count == Cardinality({ k \in 1 .. Len(dists) : dists[k] > 0 })
    IN  IF count = 0 THEN [num |-> 3 * Unit, den |-> 1]
        ELSE IF 2 * total_dist < 5 * count * Unit THEN [num |-> Unit, den |-> 2]
        ELSE IF total_dist > 3 * Unit * 5 * count THEN [num |-> 3 * Unit, den |-> 1]
        ELSE [num |-> total_dist, den |-> 5 * count]

\* app.py:564-577: one turn of the loop: the point, then the points put
\* between it and the next
DenseSegment(p1, p2, target) ==
    LET dist == haversine(p1.lat, p1.lon, p2.lat, p2.lon)
        num_points == Max(1, (dist * target.den) \div target.num - 1)
    IN  IF 10 * dist * target.den > 11 * target.num
        THEN <<p1>> \o [ j \in 1 .. num_points |->
                          [lat |-> p1.lat + (j * (p2.lat - p1.lat)) \div (num_points + 1),
                           lon |-> p1.lon + (j * (p2.lon - p1.lon)) \div (num_points + 1)] ]
        ELSE <<p1>>

\* app.py:547-585; num_points the length of the track that was chunked
densify(track, num_points) ==
    IF track # <<>> /\ (Len(track) < 300 \/ 5 * Len(track) < num_points)
    THEN Concat([ k \in 1 .. Len(track) - 1 |->
                    DenseSegment(track[k], track[k + 1], target_dist(track)) ])
         \o <<track[Len(track)]>>
    ELSE track

-----------------------------------------------------------------------------
(* build_gpx_from_coords: src/services/gpx_processor.py:10-180.             *)
(*                                                                          *)
(* The result is the list track_points; a point of it has a time and a     *)
(* speed or lacks them.  Distances are the "simple" ones of the source,    *)
(* differences of coordinates, here along one meridian; orig_dist is the   *)
(* fraction dm * total_o / total_m and is compared by cross-multiplying.   *)

\* gpx_processor.py:55-60, 66-74: the distance along pts at each point
distances_along(pts) ==
    [ i \in 1 .. Len(pts) |->
        SumOver([ k \in 1 .. Len(pts) |->
                    IF k = 1 THEN 0 ELSE Abs(pts[k - 1].lat - pts[k].lat) ], 1, i) ]

\* gpx_processor.py:32-40: the seconds from the first to the last raw point,
\* None unless both have a time
total_duration(raw_points) ==
    LET start_time == raw_points[1].time
        end_time   == raw_points[Len(raw_points)].time
    IN  IF IsSome(start_time) /\ IsSome(end_time)
        THEN Some(Val(end_time) - Val(start_time))
        ELSE None

\* "if total_duration": neither None nor 0
Truthy(duration) == IsSome(duration) /\ Val(duration) # 0

\* gpx_processor.py:105-143: the time of the point at distance dm along the
\* matched track
MappedTime(raw_points, d_orig, dm, total_m) ==
    LET total_o == d_orig[Len(d_orig)]
        \* orig_dist = on / od
        on == IF total_m > 0 THEN dm * total_o ELSE 0
        od == IF total_m > 0 THEN total_m ELSE 1
        diff(j) == Abs(d_orig[j] * od - on)
        best_idx == CHOOSE j \in 1 .. Len(d_orig) :
                       /\ \A k \in 1 .. Len(d_orig) : diff(j) <= diff(k)
                       /\ \A k \in 1 .. j - 1 : diff(k) > diff(j)
    IN  IF best_idx < Len(raw_points) /\ d_orig[best_idx] * od < on
        THEN LET p1 == raw_points[best_idx]
                 p2 == raw_points[best_idx + 1]
                 d1 == d_orig[best_idx]
                 d2 == d_orig[best_idx + 1]
             IN  IF IsSome(p1.time) /\ IsSome(p2.time)
                 THEN IF d2 - d1 > 0
                      THEN Some(Val(p1.time)
                                + ((on - d1 * od) * (Val(p2.time) - Val(p1.time)))
                                  \div ((d2 - d1) * od))
                      ELSE p1.time
                 ELSE p1.time
        ELSE raw_points[best_idx].time

\* gpx_processor.py:89-95, 168-174: the speed goes into the GPX extension in
\* m/s and comes back as round(speed_ms * 3.6, 1)
DisplaySpeed(speed) ==
    IF IsSome(speed) THEN Some(Round1([num |-> Val(speed), den |-> 1])) ELSE None

\* gpx_processor.py:10-180
build_gpx_from_coords(matched, raw_points) ==
    IF matched = <<>> THEN <<>>
    ELSE LET duration == total_duration(raw_points)
             d_orig   == distances_along(raw_points)
             d_match  == distances_along(matched)
             total_o  == d_orig[Len(d_orig)]
             total_m  == d_match[Len(d_match)]
             time(i)  ==
                IF total_o > 0 /\ Truthy(duration)
                THEN MappedTime(raw_points, d_orig, d_match[i], total_m)
                ELSE IF Truthy(duration)
                THEN Some(Val(raw_points[1].time)
                          + IF Len(matched) > 1
                            THEN ((i - 1) * Val(duration)) \div (Len(matched) - 1)
                            ELSE 0)
                ELSE None
         IN  [ i \in 1 .. Len(matched) |->
                 [lat   |-> matched[i].lat,
                  lon   |-> matched[i].lon,
                  time  |-> time(i),
                  speed |-> DisplaySpeed(matched[i].speed)] ]

-----------------------------------------------------------------------------
(* The two entry points: process_gpx_workflow with process_track of        *)
(* src/services/track_processor.py, and index with process_track of        *)
(* src/app.py.  fn_in is raw_points, fn_par what process_track returned,   *)
(* fn_out the outcome reported to the caller.                               *)

\* calculate_speeds is imported from services.speed_processor, a module that
\* is not among the sources: the call raises, returns a new list and leaves
\* the track alone, or gives every point of the track itself a speed
CalculateSpeedsOutcomes == {"raises", "new_list", "in_place"}

\* the speed put on a point by calculate_speeds in place, 36.0 km/h
calculate_speeds(track, outcome) ==
    IF outcome = "in_place"
    THEN [ k \in 1 .. Len(track) |-> [track[k] EXCEPT !.speed = Some(3600)] ]
    ELSE track

\* track_processor.py:48-181: after calculate_speeds (line 60) and
\* smooth_track (line 70), gc.collect() at line 74 raises NameError, the
\* module importing no gc; the except clause at 177-181 returns the track it
\* was given
services_process_track(track, outcome) ==
    calculate_speeds(track, outcome)

Outcome(success, message, track_points) ==
    [success |-> success, message |-> message, track_points |-> track_points]

\* track_processor.py:236-239
known_speed_indices(track_points) ==
    { i \in 1 .. Len(track_points) : IsSome(track_points[i].speed) }

\* track_processor.py:244
known_time_indices(track_points) ==
    { i \in 1 .. Len(track_points) : IsSome(track_points[i].time) }

\* track_processor.py:242-252: refine_points on the track points, taken to
\* be the refine_points of timestamp_speed_adjuster.py (the import names
\* services.speed_processor); the times of the track points are ISO strings
\* (gpx_processor.py:165), so with two anchors float(at) raises ValueError
\* (timestamp_speed_adjuster.py:115)
Refined(track_points) ==
    LET ks == known_speed_indices(track_points)
        kt == known_time_indices(track_points)
    IN  IF ks # {} /\ Cardinality(ks) < Len(track_points) /\ kt # {}
        THEN IF Cardinality(kt) >= 2 /\ Len(track_points) >= 2
             THEN RefineRaised
             ELSE refine_points(track_points, kt, Some(ks), 4)
        ELSE RefineResult(track_points)

\* track_processor.py:255-258: a point without a speed gets 20 km/h
DefaultSpeed(track_points) ==
    [ i \in 1 .. Len(track_points) |->
        IF IsSome(track_points[i].speed) THEN track_points[i]
        ELSE [track_points[i] EXCEPT !.speed = Some(20 * 100)] ]

\* track_processor.py:215-284, processed_coords being what process_track
\* returned
process_gpx_workflow(raw_points, processed_coords) ==
    IF processed_coords = <<>>
    THEN Outcome(FALSE, "Processing failed. Try again.", <<>>)
    ELSE LET r == Refined(build_gpx_from_coords(processed_coords, raw_points))
         IN  IF r.raised THEN Outcome(FALSE, "Error processing file", <<>>)
             ELSE Outcome(TRUE, "Track processed successfully", DefaultSpeed(r.points))

\* app.py:649-675: the point i (from 0) of the matched track with the time
\* of the raw point at the same share of the track
IndexedPoint(raw_points, matched, i) ==
    LET original_idx == Min((i * Len(raw_points)) \div Len(matched), Len(raw_points) - 1)
    IN  [lat   |-> At(matched, i).lat,
         lon   |-> At(matched, i).lon,
         time  |-> At(raw_points, original_idx).time,
         speed |-> None]

\* app.py:632-687, matched being what process_track returned
index(raw_points, matched) ==
    IF matched = <<>>
    THEN Outcome(FALSE, "Processing failed. Try the 'Skip map matching' option.", <<>>)
    ELSE Outcome(TRUE, "Track processed successfully! Using Map-matched data.",
                 [ k \in 1 .. Len(matched) |-> IndexedPoint(raw_points, matched, k - 1) ])

\* track_processor.py:206-210 / app.py:623-627: no point was parsed
NoPoints ==
    /\ fn_pc = "parsed"
    /\ fn_in = <<>>
    /\ fn_out' = Outcome(FALSE, "No track points found in GPX.", <<>>)
    /\ fn_pc' = "done"
    /\ UNCHANGED <<impl, fn_in, fn_par, outside_fn>>

\* track_processor.py:213: processed_coords = process_track(raw_points)
WorkflowProcess ==
    /\ fn_pc = "parsed"
    /\ impl = "services"
    /\ fn_in # <<>>
    /\ \E outcome \in CalculateSpeedsOutcomes :
          fn_par' = services_process_track(fn_in, outcome)
    /\ fn_pc' = "processed"
    /\ UNCHANGED <<impl, fn_in, fn_out, outside_fn>>

\* track_processor.py:215-284
WorkflowFinish ==
    /\ fn_pc = "processed"
    /\ impl = "services"
    /\ fn_out' = process_gpx_workflow(fn_in, fn_par)
    /\ fn_pc' = "done"
    /\ UNCHANGED <<impl, fn_in, fn_par, outside_fn>>

\* app.py:630, 438-441: process_track(raw_points) is called, smooths and
\* interpolates
IndexProcess ==
    /\ fn_pc = "parsed"
    /\ impl = "app"
    /\ fn_in # <<>>
    /\ processed_points' = interpolate_track(smooth_track(fn_in, 3), Unit \div 2)
    /\ track_pc' = "split"
    /\ fn_pc' = "process_track"
    /\ UNCHANGED <<impl, fn_in, fn_par, fn_out, chunk_vars, adapter_vars,
                   track_chunks, chunk_i, sub_chunks, sub_i, processed_chunks,
                   attempts>>

\* app.py:491-585: the results are stitched, cleared of spikes and made
\* denser, and process_track returns
TrackReturn ==
    /\ track_pc = "connect"
    /\ fn_par' = densify(
                    remove_spikes(
                       connect_processed_chunks(
                          "app", [ k \in 1 .. Len(processed_chunks) |->
                                     processed_chunks[k].pts ]).track),
                    Len(processed_points))
    /\ track_pc' = "returned"
    /\ UNCHANGED <<impl, fn_pc, fn_in, fn_out, chunk_vars, adapter_vars,
                   processed_points, track_chunks, chunk_i, sub_chunks, sub_i,
                   processed_chunks, attempts>>

\* app.py:632-687
IndexFinish ==
    /\ fn_pc = "process_track"
    /\ track_pc = "returned"
    /\ fn_out' = index(fn_in, fn_par)
    /\ fn_pc' = "done"
    /\ UNCHANGED <<impl, fn_in, fn_par, outside_fn>>

\* ---- the inputs of SpecWorkflow ----

\* most points of a short raw track
MaxWorkflowLen == 3

\* a raw track of the services: n points step metres apart; the time of
\* point k is 100 s + k * dt seconds on the points of timed; speeds gives the
\* speeds
MkRawTrack(n, step, dt, timed, speeds) ==
    [ k \in 1 .. n |->
        [idx   |-> k - 1,
         lat   |-> (1000 + step * (k - 1)) * Unit,
         lon   |-> 0,
         time  |-> IF k \in timed THEN Some((100 + dt * k) * Unit) ELSE None,
         speed |-> speeds[k]] ]

ServicesRawTracks ==
    UNION { { MkRawTrack(n, step, dt, timed, speeds) :
                step \in {0, 10}, dt \in {0, 1},
                timed \in {1 .. n, {}, {1} \cap (1 .. n)},
                speeds \in [1 .. n -> {None, Some(3604)}] }
            : n \in 0 .. MaxWorkflowLen }

\* a raw track of app.py without times: n points step metres apart
AppRawTracks ==
    { MkRawTrack(n, step, 0, {}, [ k \in 1 .. n |-> None ]) :
        n \in 0 .. MaxWorkflowLen, step \in {0, 10, 20} }
    \cup { MkRawTrack(2, 15100, 0, {}, <<None, None>>) }

\* the answers of the service to a chunk: an unavailable service, a body
\* without any result, 4 and 5 matched points north of the first point of
\* the chunk and 10 m apart (chunks and sub-chunks of at most 1000 points
\* only)
WorkflowResponses(ch) ==
    LET body(mp) == [EmptyBody EXCEPT !.matched_points = mp]
        matched(m) == [ i \in 1 .. m |->
                          [lat |-> Some(ch[1].lat + 10 * i * Unit),
                           lon |-> Some(0)] ]
    IN  { MkResponse(FALSE, 503, TRUE, TRUE, EmptyBody),
          MkResponse(FALSE, 200, TRUE, TRUE, EmptyBody) }
        \cup IF Len(ch) > 1000 THEN {}
             ELSE { MkResponse(FALSE, 200, TRUE, TRUE, body(Some(matched(4)))),
                    MkResponse(FALSE, 200, TRUE, TRUE, body(Some(matched(5)))) }

WorkflowAdapterPost == AdapterPostReturns(WorkflowResponses(chunk))

WorkflowInit ==
    /\ ChunkIdle
    /\ AdapterIdle
    /\ TrackIdle
    /\ \/ impl = "services" /\ fn_in \in ServicesRawTracks
       \/ impl = "app" /\ fn_in \in AppRawTracks
    /\ fn_par = <<>>
    /\ fn_pc = "parsed"
    /\ fn_out = <<>>

WorkflowNext ==
    \/ NoPoints
    \/ WorkflowProcess
    \/ WorkflowFinish
    \/ IndexProcess
    \/ TrackSplit
    \/ ChunkTrackEnter
    \/ ChunkLoopStep
    \/ ChunkLoopExit
    \/ TrackChunksReady
    \/ TrackCall
    \/ AdapterPostRaises
    \/ WorkflowAdapterPost
    \/ AdapterReturn
    \/ TrackMatched
    \/ TrackSubChunksReady
    \/ TrackSubCall
    \/ TrackSubMatched
    \/ TrackSubDone
    \/ TrackConnect
    \/ TrackReturn
    \/ IndexFinish

SpecWorkflow == WorkflowInit /\ [][WorkflowNext]_vars

\* ---- properties of the entry points, over SpecWorkflow ----

\* the caller has its answer for a track that has points
Reported == fn_pc = "done" /\ fn_in # <<>>

\* no chunk and no sub-chunk gave a result that was kept
NoUsableResult == processed_chunks = <<>>

\* C11: when no chunk and no sub-chunk gives a usable result, the caller is
\* told of a failure.
C11_NoResultIsFailure ==
    (Reported /\ NoUsableResult) => ~fn_out.success

\* what holds of C11: index of app.py reports the failure
C11_NoResultIsFailureInApp ==
    (Reported /\ NoUsableResult /\ impl = "app") => ~fn_out.success

\* and process_gpx_workflow never does: given points, it reports a success,
\* or the error raised after process_track returned
C11_ServicesNeverReportFailedProcessing ==
    (Reported /\ impl = "services") =>
        fn_out.message # "Processing failed. Try again."

\* C12: when process_gpx_workflow reports success for a track of two or more
\* points that all have a time, every point of the result has a time and a
\* speed.
C12_EveryPointHasTimeAndSpeed ==
    (/\ Reported
     /\ impl = "services"
     /\ fn_out.success
     /\ Len(fn_in) >= 2
     /\ \A k \in 1 .. Len(fn_in) : IsSome(fn_in[k].time)) =>
        \A i \in 1 .. Len(fn_out.track_points) :
            /\ IsSome(fn_out.track_points[i].time)
            /\ IsSome(fn_out.track_points[i].speed)

\* what holds of C12: every point has a speed, and a time too unless the
\* first and the last raw point have the same time
C12_TimeUnlessZeroDuration ==
    (/\ Reported
     /\ impl = "services"
     /\ fn_out.success
     /\ Len(fn_in) >= 2
     /\ \A k \in 1 .. Len(fn_in) : IsSome(fn_in[k].time)) =>
        \A i \in 1 .. Len(fn_out.track_points) :
            /\ IsSome(fn_out.track_points[i].speed)
            /\ IsSome(fn_out.track_points[i].time)
                 <=> fn_in[1].time # fn_in[Len(fn_in)].time

-----------------------------------------------------------------------------
(* Further properties of chunk_track, over SpecChunk. *)

\* C21: chunk_track on a track of at most max_chunk_size points, the empty
\* track included, returns one chunk, the track itself, whatever the overlap.
C21_SmallTrackIsOneChunk ==
    (ChunkReturned /\ Len(points) <= max_chunk_size) => chunks = <<points>>

\* a track as long as the chunk size has come back whole, with an overlap as
\* large as the chunk size
C21_Witness ==
    /\ ChunkReturned
    /\ points # <<>>
    /\ Len(points) = max_chunk_size
    /\ overlap >= max_chunk_size
    /\ chunks = <<points>>

\* the empty track has come back as one empty chunk
C21_WitnessEmpty ==
    ChunkReturned /\ points = <<>> /\ chunks = << <<>> >>

-----------------------------------------------------------------------------
(* Further properties of connect_processed_chunks of app.py, over           *)
(* SpecStitch.                                                              *)

\* the indices (from 1) of the last 30 points of a and of the first 30 of b
LastWindow(a) == Max(1, Len(a) - 29) .. Len(a)
FirstWindow(b) == 1 .. Min(30, Len(b))

PairDist(a, b, j, k) == haversine(a[j].lat, a[j].lon, b[k].lat, b[k].lon)

\* the least distance of a point of the one window to a point of the other
MinPairDist(a, b) ==
    LET D == { PairDist(a, b, j, k) : j \in LastWindow(a), k \in FirstWindow(b) }
    IN  CHOOSE d \in D : \A e \in D : d <= e

\* a is cut after its point of a closest pair, and b follows from its point
\* of that pair
ExactSplice(a, b, track) ==
    \E j \in LastWindow(a), k \in FirstWindow(b) :
        /\ PairDist(a, b, j, k) = MinPairDist(a, b)
        /\ track = SubSeq(a, 1, j) \o SubSeq(b, k, Len(b))

\* app.py has stitched two chunks of more than 10 points whose windows come
\* closer than 30 m
TwoLongChunksSpliced ==
    /\ fn_pc = "returned"
    /\ impl = "app"
    /\ Len(fn_in) = 2
    /\ Len(fn_in[1]) > 10 /\ Len(fn_in[2]) > 10
    /\ MinPairDist(fn_in[1], fn_in[2]) < 30 * Unit

\* C22: when the accumulated track and the next chunk both have more than 10
\* points and their windows come closer than 30 m, the accumulated track is
\* cut right after its point of the closest pair and the chunk is appended
\* from its point of that pair, also for an accumulated track shorter than
\* the window of 30.
C22_ExactSplice ==
    TwoLongChunksSpliced =>
        /\ ~fn_out.raised
        /\ ExactSplice(fn_in[1], fn_in[2], fn_out.track)

\* what holds of C22: the splice is exact when the accumulated track has at
\* least 30 points
C22_ExactSpliceFromThirtyPoints ==
    (TwoLongChunksSpliced /\ Len(fn_in[1]) >= 30) =>
        /\ ~fn_out.raised
        /\ ExactSplice(fn_in[1], fn_in[2], fn_out.track)

-----------------------------------------------------------------------------
(* The retry policy of process_track, over SpecWorkflow.                    *)

\* the attempts made on chunk i itself (s = 0) or on its sub-chunk s
AttemptsOn(i, s) ==
    { k \in 1 .. Len(attempts) : attempts[k].from = <<i, s>> }

\* the attempt succeeded: app.py:473, 486
AttemptSucceeded(a) == ~a.none /\ a.n >= MinMatchedCoords

\* every chunk was sent to the adapter once; sub-chunks were tried only for
\* a chunk that failed, each of them once; the results kept are those of the
\* attempts that succeeded, in the order of the attempts
RetryBounded ==
    /\ \A i \in 0 .. Len(track_chunks) - 1 : Cardinality(AttemptsOn(i, 0)) = 1
    /\ \A k \in 1 .. Len(attempts) :
          LET a == attempts[k]
          IN  /\ a.from[1] \in 0 .. Len(track_chunks) - 1
              /\ Cardinality(AttemptsOn(a.from[1], a.from[2])) = 1
              /\ a.from[2] > 0 =>
                    \E k0 \in 1 .. k - 1 :
                        /\ attempts[k0].from = <<a.from[1], 0>>
                        /\ ~AttemptSucceeded(attempts[k0])
    /\ [ k \in 1 .. Len(processed_chunks) |-> processed_chunks[k].from ]
         = [ k \in 1 .. Len(SelectSeq(attempts, AttemptSucceeded)) |->
               SelectSeq(attempts, AttemptSucceeded)[k].from ]

\* C23: every chunk is sent to the adapter once, a failed chunk is split at
\* most once, every sub-chunk is tried once and never split, a failed
\* sub-chunk gives nothing to the stitcher, and process_track reaches the
\* stitching step.
C23_RetryBoundedAndStitched ==
    (fn_pc = "done" /\ fn_in # <<>>) =>
        /\ track_pc = "returned"
        /\ RetryBounded

\* what holds of C23: process_track of app.py does as the claim says
C23_RetryBoundedAndStitchedInApp ==
    (fn_pc = "done" /\ fn_in # <<>> /\ impl = "app") =>
        /\ track_pc = "returned"
        /\ RetryBounded

\* and up to its stitching step process_track of app.py has made every
\* attempt at most once
C23_NoAttemptTwice ==
    \A k \in 1 .. Len(attempts) :
        Cardinality(AttemptsOn(attempts[k].from[1], attempts[k].from[2])) = 1

-----------------------------------------------------------------------------
(* The calls of chunk_track made by process_track, over SpecTrackFair.      *)

\* chunk_track has been called and has not returned
ChunkTrackRunning == chunk_pc \in {"start", "loop"}

\* the parameters of the call let the slicing loop advance
OverlapBelowChunkSize == 0 <= overlap /\ overlap < max_chunk_size

\* a turn of the slicing loop moves start_idx forward
LoopAdvances ==
    (chunk_pc = "loop" /\ chunks' # chunks) => start_idx' > start_idx

\* C24: process_track calls chunk_track only with 0 <= overlap <
\* max_chunk_size, every turn of the slicing loop moves its start index
\* forward, and every call returns.
C24_ChunkTrackTerminates ==
    /\ [](chunk_pc # "idle" => OverlapBelowChunkSize)
    /\ [][LoopAdvances]_vars
    /\ (ChunkTrackRunning ~> chunk_pc = "done")

\* a failed chunk has been cut into three sub-chunks by the slicing loop
C24_Witness ==
    /\ track_pc = "wait_sub_chunks"
    /\ chunk_pc = "done"
    /\ chunk_path = "fixed"
    /\ Len(chunks) >= 3

-----------------------------------------------------------------------------
(* The times refine_points gives, over SpecRefineTimes: tracks with a time  *)
(* on any of their points, some of them at the same place.                  *)

\* the splines of the track are built from at most two anchors each
TwoAnchorSplines(track, timed) ==
    LET kt == SortedSeq(timed)
    IN  \A c \in AnchorChunks(Len(kt), 4) :
            Len(CleanAnchors(SubSeq(kt, c[1], c[2]), cumdist(track), None)) <= 2

\* the tracks of at most max points, 0, 3 or 9 m from one point to the next,
\* with a speed on every point and a time on the points of any set
TimedTracks(max) ==
    UNION { UNION { { tr \in { MkRefineTrack(gaps, [ k \in 1 .. n |-> Some(1230) ], T) :
                                 T \in SUBSET (1 .. n) } :
                        TwoAnchorSplines(tr, { i \in 1 .. n : IsSome(tr[i].time) }) }
                    : gaps \in [1 .. n - 1 -> {0, 3, 9}] }
            : n \in 2 .. max }

RefineTimesInit ==
    /\ ChunkIdle
    /\ AdapterIdle
    /\ TrackIdle
    /\ impl = "services"
    /\ fn_in \in TimedTracks(MaxRefineLen)
    /\ fn_par = [known_time_idxs  |-> { i \in 1 .. Len(fn_in) : IsSome(fn_in[i].time) },
                 known_speed_idxs |-> Some(1 .. Len(fn_in)),
                 chunk_size       |-> 4]
    /\ fn_pc = "call"
    /\ fn_out = <<>>

SpecRefineTimes == RefineTimesInit /\ [][RefineNext]_vars

\* the anchors: the points of the input that have a time
Anchors == { i \in 1 .. Len(fn_in) : IsSome(fn_in[i].time) }

\* two anchors that follow each other are at the same place
StationaryAnchors ==
    \E a \in Anchors, b \in Anchors :
        /\ a < b
        /\ \A m \in a + 1 .. b - 1 : m \notin Anchors
        /\ cumdist(fn_in)[a] = cumdist(fn_in)[b]

\* every anchor has the time it had
AnchorsKeepTheirTime ==
    \A a \in Anchors : fn_out.points[a].time = fn_in[a].time

\* the times of the result do not decrease along the track
TimesNonDecreasing ==
    \A i \in 1 .. Len(fn_out.points), j \in 1 .. Len(fn_out.points) :
        (i < j /\ IsSome(fn_out.points[i].time) /\ IsSome(fn_out.points[j].time))
            => Val(fn_out.points[i].time) <= Val(fn_out.points[j].time)

\* C25: with anchor times that do not decrease, the times refine_points
\* gives do not decrease along the track and every anchor keeps its time,
\* also when anchors that follow each other are at the same place.
C25_TimesNonDecreasing ==
    fn_pc = "returned" =>
        /\ ~fn_out.raised
        /\ AnchorsKeepTheirTime
        /\ TimesNonDecreasing

\* what holds of C25: the claim, unless two anchors that follow each other
\* are at the same place
C25_TimesNonDecreasingUnlessStationary ==
    (fn_pc = "returned" /\ ~StationaryAnchors) =>
        /\ ~fn_out.raised
        /\ AnchorsKeepTheirTime
        /\ TimesNonDecreasing

\* and the anchors keep their time in every case
C25_AnchorsKeepTheirTime ==
    fn_pc = "returned" => (~fn_out.raised /\ AnchorsKeepTheirTime)

-----------------------------------------------------------------------------
(* The times build_gpx_from_coords gives, over SpecGpx.  fn_in is           *)
(* raw_points, fn_par is matched_coords, fn_out the track points.           *)

\* the call of build_gpx_from_coords(matched_coords, raw_points) returns
GpxCall ==
    /\ fn_pc = "call"
    /\ fn_out' = build_gpx_from_coords(fn_par, fn_in)
    /\ fn_pc' = "returned"
    /\ UNCHANGED <<impl, fn_in, fn_par, outside_fn>>

\* most points of the original and of the matched track
MaxGpxLen == 4

\* original tracks of 2 .. max points, 0 or 10 units from one point to the
\* next, point k at 10 * k seconds; every point has a time, or all but the
\* inner ones
GpxRawTracks(max) ==
    UNION { { MkRefineTrack(gaps, [ k \in 1 .. n |-> None ], timed) :
                gaps \in [1 .. n - 1 -> {0, 10}],
                timed \in {1 .. n, {1, n}} }
            : n \in 2 .. max }

\* matched tracks of 1 .. max points, 0, 2 or 8 units from one point to the
\* next
GpxMatchedTracks(max) ==
    UNION { { MkRefineTrack(gaps, [ k \in 1 .. n |-> None ], {}) :
                gaps \in [1 .. n - 1 -> {0, 2, 8}] }
            : n \in 1 .. max }

GpxInit ==
    /\ ChunkIdle
    /\ AdapterIdle
    /\ TrackIdle
    /\ impl = "services"
    /\ fn_in \in GpxRawTracks(MaxGpxLen)
    /\ fn_par \in GpxMatchedTracks(MaxGpxLen)
    /\ fn_pc = "call"
    /\ fn_out = <<>>

GpxNext == GpxCall

SpecGpx == GpxInit /\ [][GpxNext]_vars

\* ---- properties of build_gpx_from_coords, over SpecGpx ----

\* the distances along the original and along the matched track
OrigDist == distances_along(fn_in)
MatchedDist == distances_along(fn_par)
TotalOrig == OrigDist[Len(OrigDist)]
TotalMatched == MatchedDist[Len(MatchedDist)]

\* the output point i maps to the distance D = DNum(i) / TotalMatched along
\* the original track
DNum(i) == MatchedDist[i] * TotalOrig

\* D lies between the original points j and j + 1, which are apart and both
\* have a time
Bracketed(i, j) ==
    /\ TotalMatched > 0
    /\ OrigDist[j] < OrigDist[j + 1]
    /\ OrigDist[j] * TotalMatched <= DNum(i)
    /\ DNum(i) <= OrigDist[j + 1] * TotalMatched
    /\ IsSome(fn_in[j].time) /\ IsSome(fn_in[j + 1].time)

\* t_j + (D - d_j) / (d_(j+1) - d_j) * (t_(j+1) - t_j)
LinearTime(i, j) ==
    Val(fn_in[j].time)
    + ((DNum(i) - OrigDist[j] * TotalMatched)
         * (Val(fn_in[j + 1].time) - Val(fn_in[j].time)))
      \div ((OrigDist[j + 1] - OrigDist[j]) * TotalMatched)

\* D is not nearer to the original point j + 1 than to the point j
NearerToFirst(i, j) ==
    2 * DNum(i) <= (OrigDist[j] + OrigDist[j + 1]) * TotalMatched

\* C26: an output point whose distance D lies between two consecutive
\* original points that both have a time gets the time interpolated linearly
\* between them, wherever D lies between them.
C26_TimeIsInterpolated ==
    fn_pc = "returned" =>
        \A i \in 1 .. Len(fn_out), j \in 1 .. Len(fn_in) - 1 :
            Bracketed(i, j) => fn_out[i].time = Some(LinearTime(i, j))

\* no two consecutive original points are at the same place
OrigApart ==
    \A j \in 1 .. Len(OrigDist) - 1 : OrigDist[j] < OrigDist[j + 1]

\* what holds of C26 on an original track without zero-distance segments:
\* the time is the interpolated one where D is not nearer to the second of
\* the two original points than to the first, and the time of the second
\* where it is
C26_InterpolatedInFirstHalf ==
    (fn_pc = "returned" /\ OrigApart) =>
        \A i \in 1 .. Len(fn_out), j \in 1 .. Len(fn_in) - 1 :
            Bracketed(i, j) =>
                fn_out[i].time = IF NearerToFirst(i, j) THEN Some(LinearTime(i, j))
                                 ELSE fn_in[j + 1].time

\* the times of the original track are known at both ends, and the matched
\* track has a length
KnownDuration ==
    /\ IsSome(fn_in[1].time) /\ IsSome(fn_in[Len(fn_in)].time)
    /\ Val(fn_in[Len(fn_in)].time) > Val(fn_in[1].time)
    /\ TotalMatched > 0

\* the times of the output do not decrease
GpxTimesNonDecreasing ==
    \A i \in 1 .. Len(fn_out), k \in 1 .. Len(fn_out) :
        (i < k /\ IsSome(fn_out[i].time) /\ IsSome(fn_out[k].time))
            => Val(fn_out[i].time) <= Val(fn_out[k].time)

\* the last two original points are at the same place: a zero-distance
\* segment at the end
EndsStationary ==
    OrigDist[Len(OrigDist)] = OrigDist[Len(OrigDist) - 1]

\* C27: with a start and an end time and a duration above zero, the first
\* output point has the start time, the last has the end time, and the
\* output times do not decrease, also when the original track starts or ends
\* with points at the same place.
C27_StartAndEndTimeKept ==
    (fn_pc = "returned" /\ KnownDuration) =>
        /\ fn_out[1].time = fn_in[1].time
        /\ fn_out[Len(fn_out)].time = fn_in[Len(fn_in)].time
        /\ GpxTimesNonDecreasing

\* what holds of C27: the first output point has the start time and the
\* times do not decrease; the last output point has the end time unless the
\* original track ends with a zero-distance segment
C27_StartTimeKept ==
    (fn_pc = "returned" /\ KnownDuration) =>
        /\ fn_out[1].time = fn_in[1].time
        /\ GpxTimesNonDecreasing
        /\ ~EndsStationary => fn_out[Len(fn_out)].time = fn_in[Len(fn_in)].time

-----------------------------------------------------------------------------
(* The spike pass of process_track, src/app.py:493-544, over SpecSpike.     *)
(* fn_in is the stitched track, fn_out the track after the pass.            *)

\* the spike pass has run over the stitched track
SpikeCall ==
    /\ fn_pc = "call"
    /\ fn_out' = remove_spikes(fn_in)
    /\ fn_pc' = "returned"
    /\ UNCHANGED <<impl, fn_in, fn_par, outside_fn>>

\* most points of a stitched track
MaxSpikeLen == 6

\* the steps from one point of a stitched track to the next, metres north
SpikeSteps == {0 - 150, 10, 150, 300}

\* the track of the steps after a first point
MkSpikeTrack(steps) ==
    [ k \in 1 .. Len(steps) + 1 |->
        [lat |-> (1000 + SumOver(steps, 1, k - 1)) * Unit, lon |-> 0] ]

\* stitched tracks of up to max points
SpikeTracks(max) ==
    {<<>>} \cup
    UNION { { MkSpikeTrack(steps) : steps \in [1 .. n -> SpikeSteps] }
            : n \in 0 .. max - 1 }

SpikeInit ==
    /\ ChunkIdle
    /\ AdapterIdle
    /\ TrackIdle
    /\ impl = "app"
    /\ fn_in \in SpikeTracks(MaxSpikeLen)
    /\ fn_par = <<>>
    /\ fn_pc = "call"
    /\ fn_out = <<>>

SpikeNext == SpikeCall

SpecSpike == SpikeInit /\ [][SpikeNext]_vars

\* ---- properties of the spike pass, over SpecSpike ----

\* the elements of a are in b, in the order they have in a
RECURSIVE IsSubsequence(_, _)
IsSubsequence(a, b) ==
    IF a = <<>> THEN TRUE
    ELSE IF b = <<>> THEN FALSE
    ELSE IF Head(a) = Head(b) THEN IsSubsequence(Tail(a), Tail(b))
    ELSE IsSubsequence(a, Tail(b))

\* the pass runs on tracks of more than 5 points
SpikePassRan == fn_pc = "returned" /\ Len(fn_in) > 5

\* no two consecutive points of s are more than 100 m apart
NoLongLine(s) ==
    \A k \in 1 .. Len(s) - 1 :
        haversine(s[k].lat, s[k].lon, s[k + 1].lat, s[k + 1].lon) <= 100 * Unit

\* the pair of the points of index i and i + 1 (from 0) is more than 100 m
\* apart and has known points near its middle
SplicedPair(i) ==
    LET p1   == At(fn_in, i)
        p2   == At(fn_in, i + 1)
        dist == haversine(p1.lat, p1.lon, p2.lat, p2.lon)
    IN  dist > 100 * Unit /\ NearbyIdx(fn_in, i, dist) # {}

\* C29: after the spike pass every point of the stitched track is still
\* there, in its order, and no two consecutive points of the result are
\* more than 100 m apart, whether nearby known points or interpolated
\* points fill the gap.
C29_NoLongLineAfterSpikePass ==
    SpikePassRan =>
        /\ IsSubsequence(fn_in, fn_out)
        /\ NoLongLine(fn_out)

\* what holds of C29: the points are kept in their order, and no long line
\* is left when no gap was filled with nearby known points
C29_NoLongLineUnlessSpliced ==
    SpikePassRan =>
        /\ IsSubsequence(fn_in, fn_out)
        /\ (\A i \in 0 .. Len(fn_in) - 2 : ~SplicedPair(i)) => NoLongLine(fn_out)

\* a gap of 300 m filled with interpolated points only
C29_LinearFill ==
    /\ SpikePassRan
    /\ \E i \in 0 .. Len(fn_in) - 2 :
          haversine(At(fn_in, i).lat, 0, At(fn_in, i + 1).lat, 0) = 300 * Unit
    /\ \A i \in 0 .. Len(fn_in) - 2 : ~SplicedPair(i)

-----------------------------------------------------------------------------
(* ekf_smooth_track: src/services/points_smoother.py:10-134.                *)
(*                                                                          *)
(* The filter works in metres around the first point.  In this model a     *)
(* metre, a second, a metre per second and a unit of covariance are Unit   *)
(* whole units each, and a product of two such numbers is cut to a whole   *)
(* number of units, where the code rounds a float.  The position           *)
(* covariance starts diagonal and F, Q, H and R do not mix the axes, so    *)
(* the filter is one filter per axis with the state [p, v] and the         *)
(* covariance [[P11, P12], [P12, P22]].  Each output point has the dt of   *)
(* its predict step as a field that the code does not return.              *)

\* the product of two numbers of Unit units each
FMul(a, b) == (a * b) \div Unit

\* variant: the difference of the times is taken as it is
elapsed_NoClamp(p_prev, p_current) ==
    IF IsSome(p_current.time) /\ IsSome(p_prev.time)
    THEN Val(p_current.time) - Val(p_prev.time)
    ELSE Unit

\* points_smoother.py:58-64: dt, 1.0 without both times or when the
\* difference is not above zero
elapsed(p_prev, p_current) ==
    IF IsSome(p_current.time) /\ IsSome(p_prev.time)
    THEN IF Val(p_current.time) - Val(p_prev.time) <= 0
         THEN Unit
         ELSE Val(p_current.time) - Val(p_prev.time)
    ELSE Unit

\* points_smoother.py:42-44: state 0 and P = 10 * I
EkfStart == [p |-> 0, v |-> 0, P11 |-> 10 * Unit, P12 |-> 0, P22 |-> 10 * Unit]

\* points_smoother.py:67-83: state = F @ state, P = F @ P @ F.T + Q, with
\* sigma_a ** 2 = 1/4
EkfPredict(st, dt) ==
    LET dt2 == FMul(dt, dt)
    IN  [p   |-> st.p + FMul(st.v, dt),
         v   |-> st.v,
         P11 |-> st.P11 + 2 * FMul(dt, st.P12) + FMul(dt2, st.P22)
                   + (FMul(dt2, dt2) \div 4) \div 4,
         P12 |-> st.P12 + FMul(dt, st.P22) + (FMul(dt2, dt) \div 2) \div 4,
         P22 |-> st.P22 + dt2 \div 4]

\* points_smoother.py:95-117: the update with the measurement z of the
\* position, with sigma_z ** 2 = 25
EkfUpdate(st, z) ==
    LET S     == st.P11 + 25 * Unit
        K1    == (st.P11 * Unit) \div S
        K2    == (st.P12 * Unit) \div S
        y_res == z - st.p
    IN  [p   |-> st.p + FMul(K1, y_res),
         v   |-> st.v + FMul(K2, y_res),
         P11 |-> FMul(Unit - K1, st.P11),
         P12 |-> FMul(Unit - K1, st.P12),
         P22 |-> st.P22 - FMul(K2, st.P12)]

\* points_smoother.py:56-131: the states of the two axes after the
\* measurement of index i (from 0); z_x is 0 on the tracks of one meridian,
\* whatever lon_scale is
RECURSIVE EkfState(_, _)
EkfState(track_points, i) ==
    IF i = 0 THEN [x |-> EkfStart, y |-> EkfStart]
    ELSE LET before == EkfState(track_points, i - 1)
             dt     == elapsed(At(track_points, i - 1), At(track_points, i))
             z_x    == At(track_points, i).lon - At(track_points, 0).lon
             z_y    == At(track_points, i).lat - At(track_points, 0).lat
         IN  [x |-> EkfUpdate(EkfPredict(before.x, dt), z_x),
              y |-> EkfUpdate(EkfPredict(before.y, dt), z_y)]

\* points_smoother.py:28-134
ekf_smooth_track(track_points) ==
    IF track_points = <<>> THEN <<>>
    ELSE [ k \in 1 .. Len(track_points) |->
            LET st == EkfState(track_points, k - 1)
            IN  [lat  |-> track_points[1].lat + st.y.p,
                 lon  |-> track_points[1].lon + st.x.p,
                 time |-> track_points[k].time,
                 vx   |-> st.x.v,
                 vy   |-> st.y.v,
                 dt   |-> IF k = 1 THEN None
                          ELSE Some(elapsed(track_points[k - 1], track_points[k]))] ]

\* the call of ekf_smooth_track(fn_in) returns
EkfCall ==
    /\ fn_pc = "call"
    /\ fn_out' = ekf_smooth_track(fn_in)
    /\ fn_pc' = "returned"
    /\ UNCHANGED <<impl, fn_in, fn_par, outside_fn>>

\* most points of a track given to ekf_smooth_track
MaxEkfLen == 3

\* the tracks of up to max points on one meridian: from one point to the
\* next 0, 10 or 30 m north or 5 m south; a point has no time or one of
\* 100, 101 and 103 s, in any order
EkfTracks(max) ==
    {<<>>} \cup
    UNION { { [ k \in 1 .. n |->
                 [lat   |-> (1000 + SumOver(steps, 1, k - 1)) * Unit,
                  lon   |-> 0,
                  time  |-> times[k],
                  speed |-> None] ] :
               steps \in [1 .. n - 1 -> {0 - 5, 0, 10, 30}],
               times \in [1 .. n -> {None, Some(100 * Unit), Some(101 * Unit),
                                     Some(103 * Unit)}] }
            : n \in 1 .. max }

EkfInit ==
    /\ ChunkIdle
    /\ AdapterIdle
    /\ TrackIdle
    /\ impl = "services"
    /\ fn_in \in EkfTracks(MaxEkfLen)
    /\ fn_par = <<>>
    /\ fn_pc = "call"
    /\ fn_out = <<>>

EkfNext == EkfCall

SpecEkf == EkfInit /\ [][EkfNext]_vars

\* ---- properties of ekf_smooth_track, over SpecEkf ----

\* the two points both have a time, the second a later one
TimeAdvances(p, q) ==
    IsSome(p.time) /\ IsSome(q.time) /\ Val(q.time) > Val(p.time)

\* C30: every predict step of ekf_smooth_track has a dt above zero: the
\* difference of the two times when both are there and it is above zero,
\* and exactly 1.0 otherwise; the output has one point for every input
\* point, with the time of that point, and its first point is at the place
\* of the first input point.
C30_PositiveDtOnePointEach ==
    fn_pc = "returned" =>
        /\ Len(fn_out) = Len(fn_in)
        /\ \A i \in 1 .. Len(fn_out) : fn_out[i].time = fn_in[i].time
        /\ fn_in # <<>> =>
              (fn_out[1].lat = fn_in[1].lat /\ fn_out[1].lon = fn_in[1].lon)
        /\ \A i \in 2 .. Len(fn_out) :
              /\ IsSome(fn_out[i].dt)
              /\ Val(fn_out[i].dt) > 0
              /\ Val(fn_out[i].dt) =
                    IF TimeAdvances(fn_in[i - 1], fn_in[i])
                    THEN Val(fn_in[i].time) - Val(fn_in[i - 1].time)
                    ELSE Unit

\* three points with the times 101, 100 and 103 s: the first step goes back
\* in time and has the dt 1.0, the second has the dt 3.0; a third of three
\* points without a time has the dt 1.0 as well
C30_Witness ==
    /\ fn_pc = "returned"
    /\ Len(fn_in) = 3
    /\ fn_in[1].time = Some(101 * Unit)
    /\ fn_in[2].time = Some(100 * Unit)
    /\ fn_in[3].time = Some(103 * Unit)
    /\ fn_out[2].dt = Some(Unit)
    /\ fn_out[3].dt = Some(3 * Unit)
    /\ fn_out[3].lat # fn_in[3].lat

=============================================================================
